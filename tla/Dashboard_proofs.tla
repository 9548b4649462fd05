--------------------------- MODULE Dashboard_proofs ---------------------------
(***************************************************************************)
(* Proofs about the two modules of the dashboard, MonitoringWall and       *)
(* Console.                                                                *)
(*                                                                         *)
(* MonitoringWall, for any number of devices and of sessions and for every *)
(* MAX_LIVE_TILES: PaneInv ties the sessions of the hook to the panes of   *)
(* the page.  A commit closes what it takes from a pane before it gives    *)
(* the pane a session of its own.                                          *)
(*                                                                         *)
(* Console, for any admins, acts, events and requests in flight: every     *)
(* request is sound, which says what it may still write and show.  What a  *)
(* page that is signed out still waits for was asked without a token, so   *)
(* its answer is not "ok"; and a team move that no write has overtaken     *)
(* carries the admin of the row.                                           *)
(***************************************************************************)
EXTENDS MonitoringWall, Console, FiniteSetTheorems, SequenceTheorems, TLAPS

----------------------------------------------------------------------------
(* The monitoring wall.                                                    *)

Phases == {"none", "gated", "fetching", "opening", "open", "faulty", "refused",
           "busy", "lost", "closing", "dropped", "gone"}
SessionRecords ==
    [phase : Phases, device : Devices \cup {0}, gate : Sessions \cup {0}]

PageTypeOK ==
    /\ page \in {"away", "wall", "notfound"}
    /\ scoped \subseteq Devices /\ offline \subseteq Devices
    /\ liveSlots \subseteq Devices /\ started \subseteq Devices
    /\ focused \in Devices \cup {0}

HookTypeOK ==
    /\ pane \in [Panes -> Sessions \cup {0}] /\ next \in Nat \ {0}
    /\ session \in [Sessions -> SessionRecords]
    /\ closeGates \in [Devices -> Sessions \cup {0}]
    /\ slot \in [Devices -> Sessions \cup {0}]

TypeOK == PageTypeOK /\ HookTypeOK

\* A pane has its session to itself and is of its device; it is on the page,
\* and its session has not been closed.
PaneHasSession ==
    \A p \in Panes : pane[p] # 0 =>
        /\ p \in Wanted /\ pane[p] < next
        /\ session[pane[p]].device = DeviceOf(p)
        /\ session[pane[p]].phase \in {"gated", "fetching", "opening", "open",
                                       "faulty", "refused", "busy", "lost"}
        /\ \A q \in Panes : pane[q] = pane[p] => q = p

\* A session that was not closed has a pane.
SessionHasPane ==
    \A i \in Sessions : Asking(i) => \E p \in Panes : pane[p] = i

PaneInv == PaneHasSession /\ SessionHasPane
WallInv == TypeOK /\ PaneInv

\* Away from the page there is no session.
LEMMA WallInitial == Init => WallInv
  <1> SUFFICES ASSUME Init PROVE WallInv
    OBVIOUS
  <1> USE WallAssumption DEF Init
  <1>1. TypeOK
    BY DEF TypeOK, PageTypeOK, HookTypeOK, SessionRecords, Phases, NoSession
  <1>2. PaneInv
    BY DEF PaneInv, PaneHasSession, SessionHasPane, Asking, NoSession
  <1> QED BY <1>1, <1>2 DEF WallInv

\* Numbering the members of a set of panes in their order numbers each one
\* differently, from 0 up to one less than how many they are.
LEMMA Numbering ==
    ASSUME NEW S \in SUBSET Panes
    PROVE  /\ Cardinality(S) \in Nat
           /\ \A p \in S : /\ Cardinality({r \in S : r < p}) \in Nat
                           /\ Cardinality({r \in S : r < p}) < Cardinality(S)
           /\ \A p, q \in S :
                 Cardinality({r \in S : r < p}) = Cardinality({r \in S : r < q})
                     => p = q
  <1> DEFINE below(p) == {r \in S : r < p}
  <1>1. S \subseteq Int BY WallAssumption DEF Panes
  <1>2. IsFiniteSet(S)
    <2>1. 2 * NumDevices \in Int BY WallAssumption
    <2>2. IsFiniteSet(Panes) BY <2>1, FS_Interval DEF Panes
    <2> QED BY <2>2, FS_Subset
  <1>3. \A p : IsFiniteSet(below(p)) /\ Cardinality(below(p)) \in Nat
    <2>1. \A p : IsFiniteSet(below(p)) BY <1>2, FS_Subset
    <2> QED BY <2>1, FS_CardinalityType
  <1>4. ASSUME NEW p \in S
        PROVE  Cardinality(below(p)) < Cardinality(S)
    <2>1. below(p) \in SUBSET S /\ below(p) # S BY <1>1
    <2>2. Cardinality(below(p)) <= Cardinality(S)
          /\ Cardinality(below(p)) # Cardinality(S)
      BY <1>2, <2>1, FS_Subset
    <2>3. Cardinality(S) \in Nat BY <1>2, FS_CardinalityType
    <2> QED BY <1>3, <2>2, <2>3
  <1>5. ASSUME NEW p \in S, NEW q \in S, p < q
        PROVE  Cardinality(below(p)) # Cardinality(below(q))
    <2>1. below(p) \in SUBSET below(q)
      <3>1. \A r \in S : r < p => r < q BY <1>1, <1>5
      <3> QED BY <3>1
    <2>2. p \in below(q) /\ p \notin below(p) BY <1>1, <1>5
    <2>3. below(p) # below(q) BY <2>2
    <2> QED BY <1>3, <2>1, <2>3, FS_Subset
  <1>6. Cardinality(S) \in Nat BY <1>2, FS_CardinalityType
  <1>7. \A p, q \in S : p = q \/ p < q \/ q < p BY <1>1
  <1> QED BY <1>3, <1>4, <1>5, <1>6, <1>7

\* A commit closes the sessions it takes from their panes, and gives each
\* pane that comes a session that no pane had.
LEMMA CommitKeeps ==
    ASSUME WallInv, PageTypeOK', NEW again, Commit(again)
    PROVE  WallInv'
  <1> DEFINE left == {p \in Panes :
                        pane[p] # 0 /\ (p \notin Wanted' \/ p \in again)}
             come == {p \in Panes :
                        p \in Wanted' /\ (pane[p] = 0 \/ p \in again)}
             id(p) == next + Cardinality({q \in come : q < p})
             closing == {pane[p] : p \in left}
             new(p) == [phase |-> IF closeGates'[DeviceOf(p)] = 0
                                  THEN "fetching" ELSE "gated",
                        device |-> DeviceOf(p),
                        gate |-> closeGates'[DeviceOf(p)]]
  <1> USE DEF WallInv, TypeOK, HookTypeOK
  <1>1. /\ next + Cardinality(come) <= MaxSessions + 1
        /\ next' = next + Cardinality(come)
        /\ pane' = [p \in Panes |-> IF p \in come THEN id(p)
                                    ELSE IF p \in left THEN 0 ELSE pane[p]]
        /\ closeGates' = [d \in Devices |->
              IF \E i \in closing : session[i].device = d
              THEN IF \E i \in closing : session[i].device = d /\ HasSocket(i)
                   THEN CHOOSE i \in closing : session[i].device = d ELSE 0
              ELSE closeGates[d]]
        /\ session' = [i \in Sessions |->
              IF i \in closing THEN Closed(i)
              ELSE IF \E p \in come : id(p) = i
              THEN LET d == DeviceOf(CHOOSE p \in come : id(p) = i) IN
                   [phase |-> IF closeGates'[d] = 0 THEN "fetching" ELSE "gated",
                    device |-> d, gate |-> closeGates'[d]]
              ELSE session[i]]
        /\ UNCHANGED slot
    BY DEF Commit
  <1>2. come \in SUBSET Panes OBVIOUS
  <1>3. /\ Cardinality(come) \in Nat
        /\ \A p \in come : /\ id(p) \in Nat /\ id(p) >= next
                           /\ id(p) < next + Cardinality(come)
        /\ \A p, q \in come : id(p) = id(q) => p = q
    BY <1>2, Numbering
  <1> HIDE DEF id
  <1>4. \A p \in come : id(p) \in Sessions
    BY <1>1, <1>3, WallAssumption DEF Sessions
  <1>5. next' \in Nat \ {0} /\ next' >= next BY <1>1, <1>3
  <1>6. closing \subseteq Sessions OBVIOUS
  <1>7. \A p \in Panes : DeviceOf(p) \in Devices
    BY WallAssumption DEF DeviceOf, Panes, Devices
  <1>8. closeGates' \in [Devices -> Sessions \cup {0}] BY <1>1, <1>6
  <1>9. \A p \in come : id(p) \notin closing /\ session'[id(p)] = new(p)
    <2> SUFFICES ASSUME NEW p \in come
                 PROVE  id(p) \notin closing /\ session'[id(p)] = new(p)
      OBVIOUS
    <2>1. id(p) \notin closing
      BY <1>3 DEF PaneInv, PaneHasSession
    <2>2. (CHOOSE q \in come : id(q) = id(p)) = p BY <1>3
    <2> QED BY <1>1, <1>4, <2>1, <2>2
  <1>10. \A i \in Sessions : \/ i \in closing /\ session'[i] = Closed(i)
                             \/ \E p \in come : i = id(p)
                             \/ i \notin closing /\ session'[i] = session[i]
    BY <1>1
  <1>11. session' \in [Sessions -> SessionRecords]
    <2>1. \A i \in Sessions : Closed(i) \in SessionRecords
      BY WallAssumption
      DEF Closed, Gone, NoSession, HasSocket, SessionRecords, Phases
    <2>2. \A p \in come : new(p) \in SessionRecords
      BY <1>7, <1>8 DEF SessionRecords, Phases
    <2>3. \A i \in Sessions : session'[i] \in SessionRecords
      <3> SUFFICES ASSUME NEW i \in Sessions
                   PROVE  session'[i] \in SessionRecords
        OBVIOUS
      <3>1. session[i] \in SessionRecords OBVIOUS
      <3> HIDE DEF new, SessionRecords, WallInv, TypeOK, HookTypeOK
      <3> QED BY <1>9, <1>10, <2>1, <2>2, <3>1
    <2>4. session' = [i \in Sessions |-> session'[i]] BY <1>1
    <2> QED BY <2>3, <2>4
  <1>12. pane' \in [Panes -> Sessions \cup {0}] BY <1>1, <1>4
  <1>13. \A p \in Panes :
            IF p \in come THEN pane'[p] = id(p)
            ELSE IF p \in left THEN pane'[p] = 0 ELSE pane'[p] = pane[p]
    BY <1>1
  <1>14. TypeOK' BY <1>1, <1>5, <1>8, <1>11, <1>12
  <1>15. PaneHasSession'
    <2> SUFFICES ASSUME NEW p \in Panes, pane'[p] # 0
                 PROVE  /\ p \in Wanted' /\ pane'[p] < next'
                        /\ session'[pane'[p]].device = DeviceOf(p)
                        /\ session'[pane'[p]].phase \in
                              {"gated", "fetching", "opening", "open",
                               "faulty", "refused", "busy", "lost"}
                        /\ \A q \in Panes : pane'[q] = pane'[p] => q = p
      BY DEF PaneHasSession
    <2>1. \A q \in Panes : pane[q] # 0 => pane[q] \in Nat /\ pane[q] < next
      BY DEF PaneInv, PaneHasSession, Sessions
    <2>2. CASE p \in come
      <3>1. pane'[p] = id(p) BY <1>13, <2>2
      <3>2. \A q \in Panes : pane'[q] = id(p) => q = p
        BY <1>3, <1>13, <2>1, <2>2
      <3>3. p \in Wanted' /\ pane'[p] < next' BY <1>1, <1>3, <2>2, <3>1
      <3>4. session'[id(p)] = new(p) BY <1>9, <2>2
      <3>5. /\ session'[id(p)].device = DeviceOf(p)
            /\ session'[id(p)].phase \in {"gated", "fetching"}
        BY <3>4
      <3> QED BY <3>1, <3>2, <3>3, <3>5
    <2>3. CASE p \notin come
      <3>1. p \notin left /\ pane'[p] = pane[p] /\ p \in Wanted'
        BY <1>13, <2>3
      <3>2. pane[p] \notin closing
        BY <3>1 DEF PaneInv, PaneHasSession
      <3>3. \A q \in come : id(q) # pane[p] BY <1>3, <2>1, <3>1
      <3>4. session'[pane[p]] = session[pane[p]]
        BY <1>10, <3>1, <3>2, <3>3
      <3>5. \A q \in Panes : pane'[q] = pane[p] => q = p
        <4>1. \A q \in Panes : pane[q] = pane[p] => q = p
          BY <3>1 DEF PaneInv, PaneHasSession
        <4> QED BY <1>13, <3>1, <3>3, <4>1
      <3>6. pane'[p] < next' BY <1>5, <2>1, <3>1
      <3> QED BY <3>1, <3>4, <3>5, <3>6 DEF PaneInv, PaneHasSession
    <2> QED BY <2>2, <2>3
  <1>16. SessionHasPane'
    <2> SUFFICES ASSUME NEW i \in Sessions,
                        session'[i].phase \in {"gated", "fetching", "opening",
                                               "open", "faulty"}
                 PROVE  \E p \in Panes : pane'[p] = i
      BY DEF SessionHasPane, Asking
    <2>1. CASE i \in closing /\ session'[i] = Closed(i)
      BY <2>1 DEF Closed, Gone, NoSession, HasSocket, SessionRecords
    <2>2. CASE \E p \in come : i = id(p) BY <1>13, <2>2
    <2>3. CASE i \notin closing /\ session'[i] = session[i]
      <3>1. PICK p \in Panes : pane[p] = i
        BY <2>3 DEF PaneInv, SessionHasPane, Asking
      <3>2. pane[p] # 0 BY <3>1 DEF Sessions
      <3>3. p \notin left BY <2>3, <3>1
      <3>4. p \notin come BY <3>2, <3>3
      <3> QED BY <1>13, <3>1, <3>3, <3>4
    <2> QED BY <1>10, <2>1, <2>2, <2>3
  <1> QED BY <1>14, <1>15, <1>16 DEF PaneInv

\* What the page's own steps make of its state.
LEMMA ShowTypes ==
    ASSUME PageTypeOK, NEW s \in SUBSET Devices, NEW o \in SUBSET Devices,
           Show(s, o), UNCHANGED <<page, started>>
    PROVE  PageTypeOK' /\ liveSlots \cap (s \ o) \subseteq liveSlots'
  BY DEF PageTypeOK, Show, AutoLive

\* The steps of the sessions and of the backend leave the page alone.
LEMMA WantedStill == UNCHANGED pageVars => Wanted' = Wanted
  BY DEF pageVars, Wanted

\* Such a step keeps PaneInv if it takes no session out of a pane's hands and
\* gives no session a life it had not.
LEMMA PaneStill ==
    ASSUME TypeOK, PaneInv, UNCHANGED pageVars, UNCHANGED hookVars,
           \A i \in Sessions : session'[i] # session[i] =>
               \/ /\ session[i].phase \notin {"closing", "dropped", "none"}
                  /\ session'[i].device = session[i].device
                  /\ session'[i].phase \in {"opening", "open", "faulty", "refused",
                                            "busy", "lost", "fetching"}
                  /\ Asking(i) \/ ~Asking(i)'
               \/ /\ session[i].phase \in {"closing", "dropped"}
                  /\ ~Asking(i)'
    PROVE  PaneInv'
  BY WantedStill
  DEF TypeOK, HookTypeOK, PaneInv, PaneHasSession, SessionHasPane, Asking,
      hookVars, SessionRecords

\* Every step keeps the invariant.
LEMMA WallKeeps == WallInv /\ [Next]_vars => WallInv'
  <1> SUFFICES ASSUME WallInv, [Next]_vars PROVE WallInv'
    OBVIOUS
  <1> USE WallAssumption DEF WallInv
  <1>1. ASSUME (\E d \in Devices : StatusChanges(d)) \/ ListChanges
        PROVE  WallInv'
    <2>1. PageTypeOK'
      BY <1>1, ShowTypes DEF StatusChanges, ListChanges, TypeOK, PageTypeOK
    <2> QED BY <1>1, <2>1, CommitKeeps DEF StatusChanges, ListChanges
  <1>2. CASE EnterPage \/ LeavePage \/ TeamResolves
    <2>1. PageTypeOK'
      BY <1>2 DEF EnterPage, LeavePage, TeamResolves, AutoLive, TypeOK,
                  PageTypeOK
    <2> QED BY <1>2, <2>1, CommitKeeps DEF EnterPage, LeavePage, TeamResolves
  <1>3. ASSUME NEW d \in Devices, Focus(d) \/ StartTile(d) PROVE WallInv'
    <2>1. PageTypeOK'
      BY <1>3 DEF Focus, StartTile, TypeOK, PageTypeOK
    <2> QED BY <1>3, <2>1, CommitKeeps DEF Focus, StartTile
  <1>4. ASSUME NEW p \in Panes, Retry(p) PROVE WallInv'
    <2>1. PageTypeOK'
      BY <1>4 DEF Retry, TypeOK, PageTypeOK, pageVars
    <2> QED BY <1>4, <2>1, CommitKeeps DEF Retry
  <1>5. ASSUME NEW i \in Sessions,
               \/ CloseEvent(i) \/ CloseCeiling(i) \/ Fetched(i) \/ Admit(i)
               \/ TurnAway(i) \/ EndSession(i) \/ ReportError(i)
        PROVE  WallInv'
    <2>1. UNCHANGED pageVars /\ UNCHANGED hookVars
      BY <1>5 DEF CloseEvent, CloseCeiling, Settled, Fetched, Admit, TurnAway,
                  EndSession, ReportError
    <2>2. PageTypeOK' BY <2>1 DEF TypeOK, PageTypeOK, pageVars
    <2>3. CASE CloseEvent(i) \/ CloseCeiling(i)
      <3>1. Settled(i) /\ session[i].phase = "closing"
        BY <2>3 DEF CloseEvent, CloseCeiling, Unsettled
      <3>2. \A j \in Sessions :
               \/ session'[j] = session[j]
               \/ /\ session[j].phase = "gated"
                  /\ session'[j] = [session[j] EXCEPT !.phase = "fetching",
                                                      !.gate = 0]
               \/ j = i /\ session'[j] = Gone
        BY <3>1 DEF Settled
      <3>3. session' \in [Sessions -> SessionRecords]
        <4>1. Gone \in SessionRecords
          BY DEF Gone, NoSession, SessionRecords, Phases
        <4>2. \A j \in Sessions :
                 [session[j] EXCEPT !.phase = "fetching", !.gate = 0]
                     \in SessionRecords
          BY DEF TypeOK, HookTypeOK, SessionRecords, Phases
        <4>3. \A j \in Sessions : session'[j] \in SessionRecords
          BY <3>2, <4>1, <4>2 DEF TypeOK, HookTypeOK
        <4> QED BY <3>1, <4>3 DEF Settled
      <3>4. HookTypeOK'
        BY <2>1, <3>1, <3>3 DEF Settled, TypeOK, HookTypeOK, hookVars
      <3>5. ASSUME NEW j \in Sessions, session'[j] # session[j]
            PROVE  \/ /\ session[j].phase = "gated"
                      /\ session'[j].phase = "fetching"
                      /\ session'[j].device = session[j].device
                   \/ /\ session[j].phase = "closing"
                      /\ session'[j].phase = "gone"
        <4>1. session[j] \in SessionRecords BY DEF TypeOK, HookTypeOK
        <4> QED
          BY <3>1, <3>2, <3>5, <4>1 DEF Gone, NoSession, SessionRecords
      <3>6. PaneInv'
        BY <2>1, <3>5, PaneStill DEF Asking, TypeOK
      <3> QED BY <2>2, <3>4, <3>6 DEF TypeOK
    <2>4. CASE Fetched(i) \/ Admit(i) \/ TurnAway(i)
      <3>1. \E to \in {"opening", "gone", "open", "busy", "refused"} :
               /\ session[i].phase = "dropped" => to = "gone"
               /\ to = "gone" => session[i].phase = "dropped"
               /\ session[i].phase \in {"fetching", "dropped", "opening"}
               /\ session' = [session EXCEPT ![i] =
                     IF to = "gone" THEN Gone ELSE [@ EXCEPT !.phase = to]]
        BY <2>4 DEF Fetched, Admit, TurnAway
      <3>2. session' \in [Sessions -> SessionRecords]
        BY <3>1 DEF TypeOK, HookTypeOK, SessionRecords, Phases, Gone, NoSession
      <3>3. slot' \in [Devices -> Sessions \cup {0}]
        BY <2>4 DEF TypeOK, HookTypeOK, Fetched, Admit, TurnAway
      <3>4. HookTypeOK'
        BY <2>1, <2>4, <3>2, <3>3
        DEF TypeOK, HookTypeOK, hookVars, Fetched, Admit, TurnAway
      <3>5. PaneInv'
        BY <2>1, <3>1, PaneStill
        DEF Asking, Gone, NoSession, TypeOK, HookTypeOK, SessionRecords
      <3> QED BY <2>2, <3>4, <3>5 DEF TypeOK
    <2>5. CASE EndSession(i) \/ ReportError(i)
      <3>1. /\ session' \in [Sessions -> SessionRecords]
            /\ \A j \in Sessions :
                  \/ session'[j] = session[j]
                  \/ /\ session[j].phase \in {"open", "faulty", "lost"}
                     /\ session[j].phase = "lost" =>
                           session'[j].phase = "refused"
                     /\ session'[j].phase \in {"faulty", "lost", "refused"}
                     /\ session'[j].device = session[j].device
        <4>1. PICK to \in {"lost", "refused", "faulty", session[i].phase} :
                 /\ session' = [session EXCEPT ![i].phase = to]
                 /\ to # session[i].phase =>
                      /\ session[i].phase \in {"open", "faulty", "lost"}
                      /\ session[i].phase = "lost" => to = "refused"
          BY <2>5 DEF EndSession, ReportError
        <4>2. \A j \in Sessions : session[j] \in SessionRecords
          BY DEF TypeOK, HookTypeOK
        <4>3. to \in Phases BY <4>1, <4>2 DEF SessionRecords, Phases
        <4>4. session' \in [Sessions -> SessionRecords]
          BY <4>1, <4>2, <4>3 DEF SessionRecords, TypeOK, HookTypeOK
        <4>5. ASSUME NEW j \in Sessions, session'[j] # session[j]
              PROVE  /\ session[j].phase \in {"open", "faulty", "lost"}
                     /\ session[j].phase = "lost" =>
                           session'[j].phase = "refused"
                     /\ session'[j].phase \in {"faulty", "lost", "refused"}
                     /\ session'[j].device = session[j].device
          <5>1. j = i /\ session'[j] = [session[j] EXCEPT !.phase = to]
            BY <4>1, <4>5 DEF TypeOK, HookTypeOK
          <5>2. to # session[i].phase BY <4>2, <4>5, <5>1 DEF SessionRecords
          <5> QED BY <4>1, <4>2, <5>1, <5>2 DEF SessionRecords
        <4> QED BY <4>4, <4>5
      <3>2. slot' \in [Devices -> Sessions \cup {0}]
        BY <2>5 DEF TypeOK, HookTypeOK, EndSession, ReportError
      <3>3. HookTypeOK'
        BY <2>1, <2>5, <3>1, <3>2
        DEF TypeOK, HookTypeOK, hookVars, EndSession, ReportError
      <3>4. PaneInv'
        <4>1. \A j \in Sessions : session'[j] # session[j] =>
                 /\ session[j].phase \notin {"closing", "dropped", "none"}
                 /\ session'[j].device = session[j].device
                 /\ session'[j].phase \in {"faulty", "lost", "refused"}
                 /\ Asking(j) \/ ~Asking(j)'
          BY <3>1 DEF Asking
        <4> QED BY <2>1, <4>1, PaneStill DEF TypeOK
      <3> QED BY <2>2, <3>3, <3>4 DEF TypeOK
    <2> QED BY <1>5, <2>3, <2>4, <2>5
  <1>6. CASE UNCHANGED vars
    BY <1>6, PaneStill DEF vars, pageVars, hookVars, TypeOK, PageTypeOK,
                           HookTypeOK
  <1> QED BY <1>1, <1>2, <1>3, <1>4, <1>5, <1>6 DEF Next

----------------------------------------------------------------------------

\* The page never wants both tiles of a device.
LEMMA OneTileWanted ==
    ASSUME PageTypeOK, NEW p \in Panes, NEW q \in Panes,
           p \in Wanted, q \in Wanted, DeviceOf(p) = DeviceOf(q)
    PROVE  p = q
  <1> USE WallAssumption DEF PageTypeOK, Devices
  <1>1. ASSUME NEW r \in Panes, r \in Wanted
        PROVE  \/ r \in Devices /\ r # focused
               \/ r = NumDevices + focused /\ focused \in Devices
    BY <1>1 DEF Wanted
  <1>2. CASE p \in Devices /\ q \in Devices BY <1>2 DEF DeviceOf
  <1>3. CASE p \notin Devices /\ q \notin Devices BY <1>1, <1>3
  <1>4. CASE p \in Devices /\ q \notin Devices
    BY <1>1, <1>4 DEF DeviceOf
  <1>5. CASE p \notin Devices /\ q \in Devices
    BY <1>1, <1>5 DEF DeviceOf
  <1> QED BY <1>2, <1>3, <1>4, <1>5

\* The inductive invariant holds of every behaviour.
THEOREM WallInvariant == Spec => []WallInv
  <1> QED BY WallInitial, WallKeeps, PTL DEF Spec

\* Each variable keeps its type, for any devices and sessions.
THEOREM WallTypeCorrect == Spec => []TypeOK
  <1>1. WallInv => TypeOK BY DEF WallInv
  <1> QED BY WallInvariant, <1>1, PTL

\* MonitorTile and useDeviceSession: of the wall's sessions for a device one
\* at most is not closed, and a pane on the page has it.
THEOREM OnePaneAsksHolds == Spec => []OnePaneAsks
  <1>1. WallInv => OnePaneAsks
    <2> SUFFICES ASSUME WallInv, NEW i \in Sessions, NEW j \in Sessions,
                        Asking(i)
                 PROVE  /\ \E p \in Panes : pane[p] = i
                        /\ Asking(j) /\ session[i].device = session[j].device
                           => i = j
      BY DEF OnePaneAsks
    <2> USE DEF WallInv, TypeOK, PaneInv
    <2>1. PICK p \in Panes : pane[p] = i BY DEF SessionHasPane
    <2>2. ASSUME Asking(j), session[i].device = session[j].device PROVE i = j
      <3>1. PICK q \in Panes : pane[q] = j BY <2>2 DEF SessionHasPane
      <3>2. i # 0 /\ j # 0 BY DEF Sessions
      <3>3. p \in Wanted /\ q \in Wanted /\ DeviceOf(p) = DeviceOf(q)
        BY <2>1, <2>2, <3>1, <3>2 DEF PaneHasSession
      <3> QED BY <2>1, <3>1, <3>3, OneTileWanted
    <2> QED BY <2>1, <2>2
  <1> QED BY WallInvariant, <1>1, PTL

\* liveSlots and started: what other devices do takes no session from a
\* tile, whether it runs or shows an error.
THEOREM RunningTileStaysHolds == Spec => RunningTileStays
  <1> DEFINE Step ==
        \A d \in Devices :
            /\ pane[d] # 0 /\ pane'[d] # pane[d]
            /\ page' = "wall" /\ focused' # d
            => d \notin scoped' \ offline' \/ Retry(d)
  <1>1. WallInv /\ [Next]_vars => Step
    <2> SUFFICES ASSUME WallInv, [Next]_vars, NEW d \in Devices,
                        pane[d] # 0, pane'[d] # pane[d],
                        page' = "wall", focused' # d,
                        d \in scoped' \ offline', ~Retry(d)
                 PROVE  FALSE
      OBVIOUS
    <2> USE WallAssumption
    <2>1. d \in Panes /\ d \in Wanted
      BY DEF Panes, Devices, WallInv, PaneInv, PaneHasSession
    <2>2. page = "wall" /\ d \in scoped \ offline /\ d \in liveSlots \cup started
      BY <2>1 DEF Wanted, Devices, WallInv, TypeOK, PageTypeOK
    <2>3. ASSUME NEW again, Commit(again), d \notin again, d \in Wanted'
          PROVE  FALSE
      BY <2>1, <2>3 DEF Commit
    <2>4. ASSUME liveSlots \cap (scoped' \ offline') \subseteq liveSlots',
                 started \subseteq started'
          PROVE  d \in Wanted'
      BY <2>2, <2>4 DEF Wanted
    <2>5. ~(EnterPage \/ LeavePage) BY <2>2 DEF EnterPage, LeavePage
    <2>6. ~TeamResolves
      BY <2>3, <2>4 DEF TeamResolves
    <2>7. ASSUME (\E e \in Devices : StatusChanges(e)) \/ ListChanges
          PROVE  FALSE
      <3>1. liveSlots \cap (scoped' \ offline') \subseteq liveSlots'
        BY <2>7 DEF StatusChanges, ListChanges, Show, AutoLive
      <3> QED BY <2>3, <2>4, <2>7, <3>1 DEF StatusChanges, ListChanges
    <2>8. ASSUME NEW e \in Devices, Focus(e) \/ StartTile(e) PROVE FALSE
      BY <2>3, <2>4, <2>8 DEF Focus, StartTile
    <2>9. ASSUME NEW p \in Panes, Retry(p) PROVE FALSE
      <3>1. p # d BY <2>9
      <3>3. Commit({p}) BY <2>9 DEF Retry
      <3>2. d \in Wanted' BY <2>1, <2>9, WantedStill DEF Retry
      <3> QED BY <2>3, <3>1, <3>2, <3>3
    <2>10. UNCHANGED pane
      BY <2>5, <2>6, <2>7, <2>8, <2>9
      DEF Next, vars, hookVars, CloseEvent, CloseCeiling, Settled, Fetched,
          Admit, TurnAway, EndSession, ReportError
    <2> QED BY <2>10
  <1> QED BY WallInvariant, <1>1, PTL DEF Spec, RunningTileStays

----------------------------------------------------------------------------
(* The console.  What the page and its requests may be.                    *)

\* The requests of the page.
Ops == Writes \cup Reads \cup {"login"}

\* A device as the list tells it.
Listings == [admin : Admins \cup {None}, team : {Team, None}, ver : Nat]

\* A request in flight, and the page's own state.
CallRecords ==
    [op : Ops, step : {"send", "list"}, st : {"out", "ok", "fail", "refused"},
     home : Homes, mine : BOOLEAN, tok : Nat,
     put : Assignments \cup BOOLEAN \cup {None}, seen : Nat,
     got : Listings \cup BOOLEAN \cup Nat \cup {None}]

PageStates ==
    [open : {"none", "assign", "device", "member"}, saving : BOOLEAN,
     busy : {"none", "device", "member"}, members : BOOLEAN \cup {None}]

\* The state has its types.
StateOK ==
    /\ row \in Assignments \cup {None} /\ ver \in Nat /\ member \in BOOLEAN
    /\ issued \in Nat /\ dead \subseteq 1..issued
    /\ tok \in 0..issued /\ user \in 0..issued
    /\ loading \in BOOLEAN /\ signing \in BOOLEAN
    /\ route \in {"devices", "team"}
    /\ list \in Listings \cup {None} /\ ui \in PageStates

\* A listing is of an earlier row, or tells the row's admin.
Recent(l) == l # None =>
    /\ l.ver <= ver
    /\ l.ver = ver => row # None /\ l.admin = row.admin

\* What a call writes is of the kind its operation writes.
PutFits(c) ==
    /\ c.op \in Moves \cup {"assign"} => c.put \in Assignments
    /\ c.op \in {"join", "part"} => c.put \in BOOLEAN

\* A move that no write has overtaken writes the admin of the row.
MoveFits(c) ==
    c.op \in Moves /\ c.step = "send" =>
        /\ c.seen <= ver
        /\ c.seen = ver /\ row # None => c.put.admin = row.admin

\* An answer is of the kind asked for, and nobody has one without a token.
GotFits(c) ==
    /\ Asked(c) = "devices" => c.got \in Listings \cup {None} /\ Recent(c.got)
    /\ Asked(c) = "members" => c.got \in BOOLEAN
    /\ c.op = "login" => c.got \in 1..issued
    /\ c.op = "login" \/ c.tok # 0

\* When nobody is signed in, what the page still waits for was asked without
\* a token.
NoTokenOnPage(c) == tok = 0 /\ c.home \in {"page", "app"} => c.tok = 0

\* What a request in flight may still write and show.
Sound(c) ==
    /\ c.tok \in 0..issued
    /\ c.step = "list" => c.op \in Writes
    /\ PutFits(c) /\ MoveFits(c) /\ NoTokenOnPage(c)
    /\ c.st = "ok" => GotFits(c)

SoundCalls == {c \in CallRecords : Sound(c)}

\* The inductive invariant.
ConsoleInv ==
    /\ StateOK
    /\ calls \in Seq(SoundCalls)
    /\ Recent(list)
    /\ SignedOutShowsNothing

\* Taking one call out of the sequence adds none.
LEMMA RemovedFrom ==
    ASSUME NEW S, NEW s \in Seq(S), NEW i \in DOMAIN s
    PROVE  RemoveAt(s, i) \in Seq(S)
  <1>1. Len(s) \in Nat /\ DOMAIN s = 1..Len(s) /\ \A n \in 1..Len(s) : s[n] \in S
    BY LenProperties, ElementOfSeq
  <1>2. i - 1 \in Int /\ i + 1 \in Int BY <1>1
  <1>3. SubSeq(s, 1, i - 1) \in Seq(S)
    <2>1. \A n \in 1..(i - 1) : s[n] \in S BY <1>1
    <2> QED BY <1>2, <2>1, SubSeqProperties
  <1>4. SubSeq(s, i + 1, Len(s)) \in Seq(S)
    <2>1. \A n \in (i + 1)..Len(s) : s[n] \in S BY <1>1
    <2> QED BY <1>1, <1>2, <2>1, SubSeqProperties
  <1> QED BY <1>3, <1>4, ConcatProperties DEF RemoveAt

\* A function on 1..n is a sequence.
LEMMA SequenceOf ==
    ASSUME NEW S, NEW n \in Nat, NEW f \in [1..n -> S]
    PROVE  f \in Seq(S)
  OBVIOUS

\* Rehoming a sequence rehomes each of its calls.
LEMMA RehomedTo ==
    ASSUME NEW S, NEW T, NEW cs \in Seq(S), NEW from, NEW to,
           \A c \in S :
              [c EXCEPT !.home = IF @ \in from THEN to ELSE @] \in T
    PROVE  Rehome(cs, from, to) \in Seq(T)
  <1>1. Len(cs) \in Nat /\ DOMAIN cs = 1..Len(cs) /\ \A n \in 1..Len(cs) : cs[n] \in S
    BY LenProperties, ElementOfSeq
  <1>2. Rehome(cs, from, to) \in [1..Len(cs) -> T]
    BY <1>1 DEF Rehome
  <1> QED BY <1>1, <1>2, SequenceOf

\* Disowning a sequence keeps what disowning each call keeps.
LEMMA DisownedTo ==
    ASSUME NEW S, NEW cs \in Seq(S),
           \A c \in S : [c EXCEPT !.mine = FALSE] \in S
    PROVE  Disown(cs) \in Seq(S)
  <1>1. Len(cs) \in Nat /\ DOMAIN cs = 1..Len(cs) /\ \A n \in 1..Len(cs) : cs[n] \in S
    BY LenProperties, ElementOfSeq
  <1>2. Disown(cs) \in [1..Len(cs) -> S]
    BY <1>1 DEF Disown
  <1> QED BY <1>1, <1>2, SequenceOf

\* What is left of a document's calls are some of them, rehomed: the writes left
\* are finitely many, so SetToSeq finds an order of them.
LEMMA UnloadedTo ==
    ASSUME NEW S, NEW T, NEW cs \in Seq(S),
           \A c \in S :
              [c EXCEPT !.home = IF @ \in Homes THEN "gone" ELSE @] \in T
    PROVE  Unload(cs) \in Seq(T)
  <1> DEFINE left == {i \in DOMAIN cs : cs[i].op \in Writes /\ cs[i].step = "send"
                                     /\ cs[i].st = "out"}
             kept == SetToSeq(left)
             rest == [i \in DOMAIN kept |-> cs[kept[i]]]
  <1>1. Len(cs) \in Nat /\ DOMAIN cs = 1..Len(cs) /\ \A n \in 1..Len(cs) : cs[n] \in S
    BY LenProperties, ElementOfSeq
  <1>2. IsFiniteSet(left)
    <2>1. IsFiniteSet(1..Len(cs))
      <3>1. 1 \in Int /\ Len(cs) \in Int BY <1>1
      <3> QED BY <3>1, FS_Interval
    <2>2. left \in SUBSET (1..Len(cs)) BY <1>1
    <2> QED BY <2>1, <2>2, FS_Subset
  <1>3. Cardinality(left) \in Nat BY <1>2, FS_CardinalityType
  <1>4. kept \in [1..Cardinality(left) -> left]
    <2>1. ExistsBijection(1..Cardinality(left), left)
      BY <1>2, FS_CardinalityType
    <2>2. \E f \in [1..Cardinality(left) -> left] : IsInjective(f)
      BY <2>1 DEF ExistsBijection, Bijection, Injection, IsInjective
    <2> HIDE DEF left
    <2> QED BY <2>2 DEF SetToSeq
  <1> HIDE DEF kept
  <1>5. rest \in Seq(S)
    <2>1. rest \in [1..Cardinality(left) -> S] BY <1>1, <1>4
    <2> QED BY <1>3, <2>1, SequenceOf
  <1> HIDE DEF rest
  <1>6. Rehome(rest, Homes, "gone") \in Seq(T)
    BY <1>5, RehomedTo
  <1> QED BY <1>6 DEF Unload, kept, rest

----------------------------------------------------------------------------
\* A sound call stays sound when no row it read was replaced without a new
\* version, unless it belongs to the page and its operator was signed out.
LEMMA StaysSound ==
    ASSUME StateOK, StateOK', issued' >= issued,
           (UNCHANGED <<row, ver>>) \/ ver' > ver,
           NEW c \in SoundCalls,
           tok' = 0 /\ c.home \in {"page", "app"} => c.tok = 0
    PROVE  c \in SoundCalls'
  <1>1. c \in CallRecords /\ Sound(c) BY DEF SoundCalls
  <1>2. c.tok \in 0..issued' BY <1>1 DEF Sound, StateOK
  <1>3. MoveFits(c)'
    BY <1>1 DEF Sound, MoveFits, StateOK, CallRecords
  <1>4. c.st = "ok" => GotFits(c)'
    <2> SUFFICES ASSUME c.st = "ok" PROVE GotFits(c)'
      OBVIOUS
    <2>1. GotFits(c) BY <1>1 DEF Sound
    <2>2. c.got \in Listings \cup {None} /\ Recent(c.got) => Recent(c.got)'
      BY DEF Recent, StateOK, Listings
    <2>3. c.got \in 1..issued => c.got \in 1..issued' BY DEF StateOK
    <2>4. Asked(c)' = Asked(c) BY DEF Asked
    <2> QED BY <2>1, <2>2, <2>3, <2>4 DEF GotFits
  <1>5. PutFits(c)' BY <1>1 DEF Sound, PutFits
  <1>6. NoTokenOnPage(c)' BY DEF NoTokenOnPage
  <1>7. Sound(c)' BY <1>1, <1>2, <1>3, <1>4, <1>5, <1>6 DEF Sound
  <1> QED BY <1>1, <1>7 DEF SoundCalls

\* A sound call is sound wherever it belongs, but to the page of somebody who is
\* signed out only without a token.
LEMMA RehomedSound ==
    ASSUME NEW c \in SoundCalls, NEW h \in Homes,
           tok = 0 /\ h \in {"page", "app"} => c.tok = 0
    PROVE  [c EXCEPT !.home = h] \in SoundCalls
  BY DEF SoundCalls, CallRecords, Sound, PutFits, MoveFits, NoTokenOnPage,
         GotFits, Asked

\* Whose form a call's is makes no difference to what it may do.
LEMMA DisownedSound ==
    ASSUME NEW c \in SoundCalls
    PROVE  [c EXCEPT !.mine = FALSE] \in SoundCalls
  <1> DEFINE d == [c EXCEPT !.mine = FALSE]
  <1>1. c \in CallRecords /\ Sound(c) BY DEF SoundCalls
  <1>2. /\ d \in CallRecords
        /\ d.op = c.op /\ d.step = c.step /\ d.st = c.st /\ d.home = c.home
        /\ d.tok = c.tok /\ d.put = c.put /\ d.seen = c.seen /\ d.got = c.got
    BY <1>1 DEF CallRecords
  <1> HIDE DEF d
  <1>3. Sound(d)
    BY <1>1, <1>2 DEF Sound, PutFits, MoveFits, NoTokenOnPage, GotFits, Asked
  <1> QED BY <1>2, <1>3 DEF SoundCalls, d

\* A request that is sent now is sound when what it writes is.
LEMMA NewSound ==
    ASSUME StateOK', NEW op \in Ops, NEW home \in Homes, NEW t \in 0..issued',
           NEW put \in Assignments \cup BOOLEAN \cup {None}, NEW seen \in Nat,
           tok' = 0 /\ home \in {"page", "app"} => t = 0,
           op \in Moves \cup {"assign"} => put \in Assignments,
           op \in {"join", "part"} => put \in BOOLEAN,
           op \in Moves => /\ seen <= ver'
                           /\ seen = ver' /\ row' # None => put.admin = row'.admin
    PROVE  [Call(op, home, t) EXCEPT !.put = put, !.seen = seen] \in SoundCalls'
  <1> DEFINE e == Call(op, home, t)
             d == [e EXCEPT !.put = put, !.seen = seen]
  <1>1. t \in Nat BY DEF StateOK
  <1>2. e \in CallRecords /\ e.op = op /\ e.step = "send" /\ e.st = "out"
        /\ e.home = home /\ e.tok = t
    BY <1>1 DEF CallRecords, Call
  <1> HIDE DEF e
  <1>3. d \in CallRecords /\ d.op = op /\ d.step = "send" /\ d.st = "out"
        /\ d.home = home /\ d.tok = t /\ d.put = put /\ d.seen = seen
    BY <1>2 DEF CallRecords
  <1> HIDE DEF d
  <1>4. Sound(d)'
    BY <1>3 DEF Sound, PutFits, MoveFits, NoTokenOnPage
  <1> QED BY <1>3, <1>4 DEF SoundCalls, d, e

\* A request that writes nothing is sound.
LEMMA ReadSound ==
    ASSUME StateOK', NEW op \in Reads \cup {"login"}, NEW home \in Homes,
           NEW t \in 0..issued', tok' = 0 /\ home \in {"page", "app"} => t = 0
    PROVE  Call(op, home, t) \in SoundCalls'
  <1> DEFINE d == Call(op, home, t)
  <1>1. d = [op |-> op, step |-> "send", st |-> "out", home |-> home,
             mine |-> TRUE, tok |-> t, put |-> None, seen |-> 0, got |-> None]
    BY DEF Call
  <1>2. t \in Nat /\ op \in Ops /\ op \notin Writes
    BY DEF StateOK, Ops, Reads, Writes, Moves
  <1> HIDE DEF d
  <1>3. d \in CallRecords BY <1>1, <1>2 DEF CallRecords
  <1>4. Sound(d)'
    BY <1>1, <1>2 DEF Sound, PutFits, MoveFits, NoTokenOnPage, Writes
  <1> QED BY <1>3, <1>4 DEF SoundCalls, d

\* Reloading, and the reload after a 401: nothing is shown, and the writes that
\* are left belong to no page.
LEMMA LoadKeeps ==
    ASSUME ConsoleInv, NEW p \in {"devices", "team"}, NEW t \in 0..issued,
           NEW u \in 0..issued, LoadDocument(p, t, u, Unload(calls)),
           UNCHANGED server
    PROVE  ConsoleInv'
  <1> DEFINE cs == Unload(calls)
  <1> USE DEF LoadDocument, server
  <1>1. StateOK'
    BY DEF ConsoleInv, StateOK, PageStates, FreshPage
  <1>2. cs \in Seq(SoundCalls')
    <2>1. ASSUME NEW c \in SoundCalls
          PROVE  [c EXCEPT !.home = IF @ \in Homes THEN "gone" ELSE @] \in SoundCalls'
      <3> DEFINE d == [c EXCEPT !.home = "gone"]
      <3>1. d \in SoundCalls BY RehomedSound DEF Homes
      <3>2. d.home = "gone" BY DEF SoundCalls, CallRecords
      <3>3. c.home \in Homes BY DEF SoundCalls, CallRecords
      <3>4. d \in SoundCalls'
        <4> HIDE DEF d
        <4> QED BY <1>1, <3>1, <3>2, StaysSound DEF ConsoleInv, StateOK
      <3> QED BY <3>3, <3>4
    <2> QED BY <2>1, UnloadedTo DEF ConsoleInv
  <1>3. calls' \in Seq(SoundCalls')
    <2> HIDE DEF cs
    <2>1. t # 0 => Call("me", "auth", t) \in SoundCalls'
      BY <1>1, ReadSound DEF Reads, Homes
    <2>2. t = 0 => Call("members", "page", t) \in SoundCalls'
      BY <1>1, ReadSound DEF Reads, Homes, StateOK
    <2> QED BY <1>2, <2>1, <2>2 DEF AskMembers, cs
  <1>4. Recent(list)' BY DEF Recent
  <1>5. SignedOutShowsNothing' BY DEF SignedOutShowsNothing, FreshPage
  <1> QED BY <1>1, <1>3, <1>4, <1>5 DEF ConsoleInv

\* A step that signs nobody out keeps every sound call sound.
LEMMA SoundOnes ==
    ASSUME ConsoleInv, StateOK', issued' >= issued,
           (UNCHANGED <<row, ver>>) \/ ver' > ver,
           tok' = 0 => tok = 0,
           NEW c \in SoundCalls
    PROVE  c \in SoundCalls'
  <1>1. c.home \in {"page", "app"} /\ tok = 0 => c.tok = 0
    BY DEF SoundCalls, Sound, NoTokenOnPage
  <1> QED BY <1>1, StaysSound DEF ConsoleInv

\* The same of all the requests in flight.
LEMMA SoundSequence ==
    ASSUME ConsoleInv, StateOK', issued' >= issued,
           (UNCHANGED <<row, ver>>) \/ ver' > ver,
           tok' = 0 => tok = 0,
           NEW cs \in Seq(SoundCalls)
    PROVE  cs \in Seq(SoundCalls')
  <1>1. SoundCalls \subseteq SoundCalls' BY SoundOnes
  <1> QED BY <1>1, SeqMonotonic

\* Closing a form keeps the requests in flight sound.
LEMMA DisownedSequence ==
    ASSUME NEW cs \in Seq(SoundCalls)
    PROVE  Disown(cs) \in Seq(SoundCalls)
  <1>1. \A c \in SoundCalls : [c EXCEPT !.mine = FALSE] \in SoundCalls
    BY DisownedSound
  <1> QED BY <1>1, DisownedTo

\* Logging out, and a failed /auth/me: nothing is shown, and no request belongs
\* to the page any more.
LEMMA SignOutKeeps ==
    ASSUME ConsoleInv, NEW cs \in Seq(SoundCalls), SignedOut(cs),
           UNCHANGED <<server, route>>, loading' \in BOOLEAN, signing' \in BOOLEAN
    PROVE  ConsoleInv'
  <1> USE DEF SignedOut, server
  <1>1. StateOK'
    BY DEF ConsoleInv, StateOK, PageStates, FreshPage
  <1>2. calls' \in Seq(SoundCalls')
    <2>1. ASSUME NEW c \in SoundCalls
          PROVE  [c EXCEPT !.home = IF @ \in {"page", "app"} THEN "none" ELSE @]
                     \in SoundCalls'
      <3>1. CASE c.home \in {"page", "app"}
        <4> DEFINE d == [c EXCEPT !.home = "none"]
        <4>1. d \in SoundCalls BY RehomedSound DEF Homes
        <4>2. d.home = "none" BY DEF SoundCalls, CallRecords
        <4>3. d \in SoundCalls'
          <5> HIDE DEF d
          <5> QED BY <1>1, <4>1, <4>2, StaysSound DEF ConsoleInv, StateOK
        <4> QED BY <3>1, <4>3
      <3>2. CASE c.home \notin {"page", "app"}
        <4>1. [c EXCEPT !.home = IF @ \in {"page", "app"} THEN "none" ELSE @] = c
          BY <3>2 DEF SoundCalls, CallRecords
        <4>2. c \in SoundCalls'
          BY <1>1, <3>2, StaysSound DEF ConsoleInv, StateOK
        <4> QED BY <4>1, <4>2
      <3> QED BY <3>1, <3>2
    <2> QED BY <2>1, RehomedTo DEF Unmount
  <1>3. Recent(list)' BY DEF Recent
  <1>4. SignedOutShowsNothing' BY DEF SignedOutShowsNothing, FreshPage
  <1> QED BY <1>1, <1>2, <1>3, <1>4 DEF ConsoleInv

\* Changing the page: its requests go on for the list only.
LEMMA NavigateKeeps == ASSUME ConsoleInv, Navigate PROVE ConsoleInv'
  <1> USE DEF Navigate, server, auth
  <1>1. StateOK'
    BY DEF ConsoleInv, StateOK, PageStates, FreshPage
  <1>2. LeftPage(calls) \in Seq(SoundCalls')
    <2>1. ASSUME NEW c \in SoundCalls
          PROVE  [c EXCEPT !.home = IF @ \in {"page"} THEN "app" ELSE @]
                     \in SoundCalls'
      <3>1. CASE c.home \in {"page"}
        <4> DEFINE d == [c EXCEPT !.home = "app"]
        <4>1. tok = 0 => c.tok = 0
          BY <3>1 DEF SoundCalls, Sound, NoTokenOnPage
        <4>2. d \in SoundCalls BY <4>1, RehomedSound DEF Homes
        <4>3. d \in SoundCalls'
          <5> HIDE DEF d
          <5> QED BY <1>1, <4>2, SoundOnes DEF ConsoleInv, StateOK
        <4> QED BY <3>1, <4>3
      <3>2. CASE c.home \notin {"page"}
        <4>1. [c EXCEPT !.home = IF @ \in {"page"} THEN "app" ELSE @] = c
          BY <3>2 DEF SoundCalls, CallRecords
        <4>2. c \in SoundCalls'
          BY <1>1, SoundOnes DEF ConsoleInv, StateOK
        <4> QED BY <4>1, <4>2
      <3> QED BY <3>1, <3>2
    <2> QED BY <2>1, RehomedTo DEF LeftPage, ConsoleInv
  <1>3. calls' \in Seq(SoundCalls')
    <2>1. Call("members", "page", tok) \in SoundCalls'
      BY <1>1, ReadSound DEF Reads, Homes, StateOK
    <2> QED BY <1>2, <2>1 DEF AskMembers
  <1>4. Recent(list)' BY DEF Recent, ConsoleInv
  <1>5. SignedOutShowsNothing'
    BY DEF SignedOutShowsNothing, FreshPage, ConsoleInv
  <1> QED BY <1>1, <1>3, <1>4, <1>5 DEF ConsoleInv

\* Sending a sound write, from a form or a row.
LEMMA SendKeeps ==
    ASSUME ConsoleInv, NEW op \in Ops, NEW seen \in Nat,
           NEW put \in Assignments \cup BOOLEAN \cup {None}, Send(op, put, seen),
           op \in Moves \cup {"assign"} => put \in Assignments,
           op \in {"join", "part"} => put \in BOOLEAN,
           op \in Moves => /\ seen <= ver
                           /\ seen = ver /\ row # None => put.admin = row.admin,
           ui' \in PageStates, ui'.members = ui.members,
           UNCHANGED <<server, auth, route, list>>
    PROVE  ConsoleInv'
  <1> USE DEF server, auth
  <1>1. StateOK' BY DEF ConsoleInv, StateOK
  <1>2. calls' \in Seq(SoundCalls')
    <2>1. calls \in Seq(SoundCalls')
      BY <1>1, SoundSequence DEF ConsoleInv, StateOK
    <2>2. [Call(op, "page", tok) EXCEPT !.put = put, !.seen = seen] \in SoundCalls'
      BY <1>1, NewSound DEF Homes, StateOK
    <2> QED BY <2>1, <2>2 DEF Send
  <1>3. Recent(list)' BY DEF Recent, ConsoleInv
  <1>4. SignedOutShowsNothing' BY DEF SignedOutShowsNothing, ConsoleInv
  <1> QED BY <1>1, <1>2, <1>3, <1>4 DEF ConsoleInv

\* What the forms and the rows of the page offer, and what they send.
LEMMA FormsKeep ==
    ASSUME ConsoleInv,
           SubmitAssign \/ SubmitMoveIn \/ SubmitJoin
               \/ ClickDelete \/ ClickMoveOut \/ ClickPart
    PROVE  ConsoleInv'
  <1> USE DEF SaveForm, ClickRow, Ops, Writes, Moves
  <1>1. ui \in PageStates BY DEF ConsoleInv, StateOK
  <1>2. [ui EXCEPT !.saving = TRUE] \in PageStates
        /\ [ui EXCEPT !.saving = TRUE].members = ui.members
    BY <1>1 DEF PageStates
  <1>3. \A what \in {"device", "member"} :
           [ui EXCEPT !.busy = what] \in PageStates
           /\ [ui EXCEPT !.busy = what].members = ui.members
    BY <1>1 DEF PageStates
  <1>4. list # None =>
          /\ list \in Listings
          /\ list.admin \in Admins \cup {None} /\ list.ver \in Nat
          /\ list.ver <= ver
          /\ list.ver = ver => row # None /\ list.admin = row.admin
    BY DEF ConsoleInv, StateOK, Recent, Listings
  <1>5. CASE SubmitAssign
    <2>1. PICK put \in Assignments : SaveForm("assign", put, 0)
      BY <1>5 DEF SubmitAssign
    <2> QED BY <1>2, <1>5, <2>1, SendKeeps DEF SubmitAssign
  <1>6. CASE SubmitMoveIn
    <2> DEFINE put == [admin |-> list.admin, team |-> Team]
    <2>1. list # None BY <1>6 DEF SubmitMoveIn, DeviceOffered
    <2>2. put \in Assignments /\ put.admin = list.admin
      BY <1>4, <2>1 DEF Assignments
    <2>3. Send("moveIn", put, list.ver) BY <1>6 DEF SubmitMoveIn
    <2> HIDE DEF put
    <2> QED BY <1>2, <1>4, <1>6, <2>1, <2>2, <2>3, SendKeeps DEF SubmitMoveIn
  <1>7. CASE SubmitJoin
    BY <1>2, <1>7, SendKeeps DEF SubmitJoin
  <1>8. CASE ClickDelete
    BY <1>3, <1>8, SendKeeps DEF ClickDelete
  <1>9. CASE ClickMoveOut
    <2> DEFINE put == [admin |-> list.admin, team |-> None]
    <2>1. list # None BY <1>9 DEF ClickMoveOut, DeviceInTeam
    <2>2. put \in Assignments /\ put.admin = list.admin
      BY <1>4, <2>1 DEF Assignments
    <2>3. Send("moveOut", put, list.ver) BY <1>9 DEF ClickMoveOut
    <2> HIDE DEF put
    <2> QED BY <1>3, <1>4, <1>9, <2>1, <2>2, <2>3, SendKeeps DEF ClickMoveOut
  <1>10. CASE ClickPart
    BY <1>3, <1>10, SendKeeps DEF ClickPart
  <1> QED BY <1>5, <1>6, <1>7, <1>8, <1>9, <1>10

\* The acts that ask for nothing new, or only to be signed in or refreshed.
LEMMA PageKeeps ==
    ASSUME ConsoleInv,
           SubmitLogin \/ RefreshDevices \/ CloseForm
               \/ \E f \in {"assign", "device", "member"} : OpenForm(f)
    PROVE  ConsoleInv'
  <1> USE DEF server, auth
  <1>1. ui \in PageStates BY DEF ConsoleInv, StateOK
  <1>2. ui' \in PageStates /\ ui'.members = ui.members
    BY <1>1 DEF SubmitLogin, RefreshDevices, CloseForm, OpenForm, FormClosed,
                PageStates
  <1>3. StateOK'
    BY <1>2 DEF ConsoleInv, StateOK, SubmitLogin, RefreshDevices, CloseForm, OpenForm
  <1>4. /\ UNCHANGED <<row, ver, issued, tok, list>>
        /\ issued' >= issued
    BY DEF ConsoleInv, StateOK, SubmitLogin, RefreshDevices, CloseForm, OpenForm
  <1>5. calls \in Seq(SoundCalls') /\ Disown(calls) \in Seq(SoundCalls')
    BY <1>3, <1>4, SoundSequence, DisownedSequence DEF ConsoleInv
  <1>6. Call("login", "auth", 0) \in SoundCalls'
    BY <1>3, ReadSound DEF Homes, StateOK
  <1>7. Call("devices", "app", tok) \in SoundCalls'
    BY <1>3, <1>4, ReadSound DEF Homes, StateOK, Reads
  <1>8. calls' \in Seq(SoundCalls')
    <2>1. \/ calls' = calls \/ calls' = Disown(calls)
          \/ calls' = Append(calls, Call("login", "auth", 0))
          \/ calls' = Append(calls, Call("devices", "app", tok))
      BY DEF SubmitLogin, RefreshDevices, CloseForm, OpenForm
    <2>2. Append(calls, Call("login", "auth", 0)) \in Seq(SoundCalls')
      BY <1>5, <1>6
    <2>3. Append(calls, Call("devices", "app", tok)) \in Seq(SoundCalls')
      BY <1>5, <1>7
    <2> QED BY <1>5, <2>1, <2>2, <2>3
  <1>9. Recent(list)' BY <1>4 DEF Recent, ConsoleInv
  <1>10. SignedOutShowsNothing' BY <1>2, <1>4 DEF SignedOutShowsNothing, ConsoleInv
  <1> QED BY <1>3, <1>8, <1>9, <1>10 DEF ConsoleInv

----------------------------------------------------------------------------
\* A request that has an answer that fits what it asked is sound.
LEMMA AnsweredSound ==
    ASSUME NEW c \in SoundCalls', NEW st \in {"ok", "fail", "refused"},
           NEW got \in Listings \cup BOOLEAN \cup Nat \cup {None},
           st = "ok" =>
              /\ Asked(c) = "devices" =>
                    got \in Listings \cup {None} /\ Recent(got)'
              /\ Asked(c) = "members" => got \in BOOLEAN
              /\ c.op = "login" => got \in 1..issued'
              /\ c.op = "login" \/ c.tok # 0
    PROVE  [c EXCEPT !.st = st, !.got = got] \in SoundCalls'
  <1> DEFINE d == [c EXCEPT !.st = st, !.got = got]
  <1>1. c \in CallRecords /\ Sound(c)' BY DEF SoundCalls
  <1>2. /\ d \in CallRecords
        /\ d.op = c.op /\ d.step = c.step /\ d.st = st /\ d.home = c.home
        /\ d.tok = c.tok /\ d.put = c.put /\ d.seen = c.seen /\ d.got = got
    BY <1>1 DEF CallRecords
  <1> HIDE DEF d
  <1>3. Asked(d) = Asked(c) BY <1>2 DEF Asked
  <1>4. d.st = "ok" => GotFits(d)' BY <1>2, <1>3 DEF GotFits, Asked
  <1>5. Sound(d)'
    BY <1>1, <1>2, <1>4 DEF Sound, PutFits, MoveFits, NoTokenOnPage
  <1> QED BY <1>2, <1>5 DEF SoundCalls, d

\* Giving a request an answer that fits keeps the invariant.
LEMMA AnswerKeeps ==
    ASSUME ConsoleInv, StateOK', issued' >= issued,
           (UNCHANGED <<row, ver>>) \/ ver' > ver,
           UNCHANGED <<auth, route, list, ui>>,
           NEW i \in DOMAIN calls, NEW st \in {"ok", "fail", "refused"},
           NEW got \in Listings \cup BOOLEAN \cup Nat \cup {None},
           Answered(i, st, got),
           st = "ok" =>
              /\ Asked(calls[i]) = "devices" =>
                    got \in Listings \cup {None} /\ Recent(got)'
              /\ Asked(calls[i]) = "members" => got \in BOOLEAN
              /\ calls[i].op = "login" => got \in 1..issued'
              /\ calls[i].op = "login" \/ calls[i].tok # 0
    PROVE  ConsoleInv'
  <1> USE DEF auth
  <1>1. calls \in Seq(SoundCalls) BY DEF ConsoleInv
  <1>2. calls \in Seq(SoundCalls') /\ RemoveAt(calls, i) \in Seq(SoundCalls')
    BY <1>1, RemovedFrom, SoundSequence
  <1>3. calls[i] \in SoundCalls' BY <1>2, LenProperties, ElementOfSeq
  <1> DEFINE d == [calls[i] EXCEPT !.st = st, !.got = got]
  <1>4. d \in SoundCalls' BY <1>3, AnsweredSound
  <1>5. [calls EXCEPT ![i].st = st, ![i].got = got] = [calls EXCEPT ![i] = d]
    OBVIOUS
  <1> HIDE DEF d
  <1>6. [calls EXCEPT ![i] = d] \in Seq(SoundCalls')
    BY <1>2, <1>4, LenProperties, ExceptSeq
  <1>7. calls' \in Seq(SoundCalls') BY <1>2, <1>5, <1>6 DEF Answered
  <1>8. Recent(list)' BY DEF Recent, ConsoleInv, StateOK, Listings
  <1>9. SignedOutShowsNothing' BY DEF SignedOutShowsNothing, ConsoleInv
  <1> QED BY <1>7, <1>8, <1>9 DEF ConsoleInv

\* What the invariant says of one request.
LEMMA CallFacts ==
    ASSUME ConsoleInv, NEW i \in DOMAIN calls
    PROVE  calls[i] \in CallRecords /\ Sound(calls[i])
  <1>1. calls \in Seq(SoundCalls) BY DEF ConsoleInv
  <1>2. calls[i] \in SoundCalls BY <1>1, LenProperties, ElementOfSeq
  <1> QED BY <1>2 DEF SoundCalls

\* The server serves a request: its answer tells the row of that moment, and a
\* write makes a new version.
LEMMA ServeKeeps ==
    ASSUME ConsoleInv, NEW i \in DOMAIN calls, Serve(i)
    PROVE  ConsoleInv'
  <1> DEFINE c == calls[i]
  <1>1. c \in CallRecords /\ Sound(c) BY CallFacts
  <1>2. StateOK BY DEF ConsoleInv
  <1>3. UNCHANGED <<dead, auth, route, list, ui>> BY DEF Serve
  <1>4. Asked(c) = "login" => c.op = "login" BY DEF Asked
  <1>5. Asked(c) # "login" => c.op # "login" 
    BY <1>1 DEF Asked, CallRecords, Sound, Writes, Moves
  <1>6. Asked(c) \in Writes => c.op = Asked(c)
    BY DEF Asked, Writes, Moves
  <1>7. CASE Asked(c) = "login" /\ Answered(i, "ok", issued + 1)
             /\ issued' = issued + 1 /\ UNCHANGED <<row, ver, member>>
    <2>1. StateOK' BY <1>2, <1>3, <1>7 DEF StateOK, auth
    <2>2. issued + 1 \in Nat /\ issued + 1 \in 1..issued' /\ issued' >= issued
      BY <1>2, <1>7 DEF StateOK
    <2> QED BY <1>3, <1>4, <1>7, <2>1, <2>2, AnswerKeeps
  <1>8. CASE Answered(i, "refused", None) /\ UNCHANGED <<row, ver, member, issued>>
    <2>1. StateOK' /\ issued' >= issued BY <1>2, <1>3, <1>8 DEF StateOK, auth
    <2> QED BY <1>3, <1>8, <2>1, AnswerKeeps
  <1>9. CASE Asked(c) \in Reads /\ Valid(c.tok)
             /\ Answered(i, "ok", Told(Asked(c)))
             /\ UNCHANGED <<row, ver, member, issued>>
    <2>1. StateOK' /\ issued' >= issued BY <1>2, <1>3, <1>9 DEF StateOK, auth
    <2>2. PICK got : got = Told(Asked(c)) OBVIOUS
    <2>3. Asked(c) = "devices" => got \in Listings \cup {None} /\ Recent(got)'
      <3> SUFFICES ASSUME Asked(c) = "devices"
                   PROVE  got \in Listings \cup {None} /\ Recent(got)'
        OBVIOUS
      <3>1. got = Listed BY <2>2 DEF Told
      <3>2. got \in Listings \cup {None}
        BY <1>2, <3>1 DEF Listed, StateOK, Assignments, Listings
      <3>3. Recent(got)'
        BY <1>2, <1>9, <3>1 DEF Recent, Listed, StateOK
      <3> QED BY <3>2, <3>3
    <2>4. Asked(c) = "members" => got \in BOOLEAN
      BY <1>2, <2>2 DEF Told, StateOK
    <2>5. Asked(c) = "me" => got = None BY <2>2 DEF Told
    <2>6. c.op # "login" /\ c.tok # 0
      BY <1>5, <1>9 DEF Valid, Reads
    <2>7. got \in Listings \cup BOOLEAN \cup Nat \cup {None}
      BY <1>9, <2>3, <2>4, <2>5 DEF Reads
    <2> QED BY <1>3, <1>9, <2>1, <2>2, <2>3, <2>4, <2>6, <2>7, AnswerKeeps
  <1>10. CASE Asked(c) \in Writes /\ Valid(c.tok) /\ Found(c)
              /\ Answered(i, "ok", None) /\ Write(c) /\ UNCHANGED issued
    <2>1. /\ row' \in Assignments \cup {None} /\ ver' \in Nat
          /\ member' \in BOOLEAN
          /\ (UNCHANGED <<row, ver>>) \/ ver' > ver
      <3>1. CASE c.op \in Moves \cup {"assign"}
        <4>1. row' = c.put /\ ver' = ver + 1 /\ member' = member
          BY <1>10, <3>1 DEF Write, Moves
        <4>2. c.put \in Assignments BY <1>1, <3>1 DEF Sound, PutFits
        <4> QED BY <1>2, <4>1, <4>2 DEF StateOK
      <3>2. CASE c.op = "delete"
        BY <1>2, <1>10, <3>2 DEF Write, Moves, StateOK
      <3>3. CASE c.op \in {"join", "part"}
        BY <1>1, <1>2, <1>10, <3>3 DEF Write, Moves, Sound, PutFits, StateOK
      <3> QED BY <1>6, <1>10, <3>1, <3>2, <3>3 DEF Writes
    <2>2. StateOK' /\ issued' >= issued
      BY <1>2, <1>3, <1>10, <2>1 DEF StateOK, auth
    <2>3. Asked(c) \notin {"devices", "members"} /\ c.op # "login" /\ c.tok # 0
      BY <1>5, <1>10 DEF Valid, Writes, Moves
    <2> QED BY <1>3, <1>10, <2>1, <2>2, <2>3, AnswerKeeps
  <1>11. CASE Answered(i, "fail", None) /\ UNCHANGED <<row, ver, member, issued>>
    <2>1. StateOK' /\ issued' >= issued BY <1>2, <1>3, <1>11 DEF StateOK, auth
    <2> QED BY <1>3, <1>11, <2>1, AnswerKeeps
  <1> QED BY <1>7, <1>8, <1>9, <1>10, <1>11 DEF Serve

\* A request fails.
LEMMA FailKeeps ==
    ASSUME ConsoleInv, NEW i \in DOMAIN calls, Fail(i)
    PROVE  ConsoleInv'
  <1>1. StateOK' /\ issued' >= issued
    BY DEF Fail, ConsoleInv, StateOK, server, auth
  <1> QED BY <1>1, AnswerKeeps DEF Fail, server

\* A token that expires, and the other operator's write.
LEMMA EventsKeep ==
    ASSUME ConsoleInv, Expire \/ OtherAssigns
    PROVE  ConsoleInv'
  <1> USE DEF auth
  <1>1. StateOK' /\ issued' >= issued
    <2>1. CASE Expire BY <2>1 DEF Expire, ConsoleInv, StateOK
    <2>2. CASE OtherAssigns
      BY <2>2 DEF OtherAssigns, ConsoleInv, StateOK, Assignments
    <2> QED BY <2>1, <2>2
  <1>2. (UNCHANGED <<row, ver>>) \/ ver' > ver
    BY DEF Expire, OtherAssigns, ConsoleInv, StateOK
  <1>3. UNCHANGED <<tok, list, ui, calls>> BY DEF Expire, OtherAssigns
  <1>4. calls' \in Seq(SoundCalls')
    BY <1>1, <1>2, <1>3, SoundSequence DEF ConsoleInv
  <1>5. Recent(list)'
    <2>1. list = None \/ list.ver \in Nat
      BY DEF ConsoleInv, StateOK, Listings
    <2> QED BY <1>1, <1>2, <1>3, <2>1 DEF Recent, ConsoleInv, StateOK
  <1>6. SignedOutShowsNothing' BY <1>3 DEF SignedOutShowsNothing, ConsoleInv
  <1> QED BY <1>1, <1>4, <1>5, <1>6 DEF ConsoleInv

----------------------------------------------------------------------------
\* The end of a save changes its form and its row, not the members shown.
LEMMA FinishedPage ==
    ASSUME NEW u \in PageStates, NEW c, NEW ok \in BOOLEAN
    PROVE  Finished(c, ok, u) \in PageStates /\ Finished(c, ok, u).members = u.members
  <1>1. Released(c, ok, u) \in PageStates /\ Released(c, ok, u).members = u.members
    BY DEF Released, PageStates
  <1> DEFINE v == Released(c, ok, u)
  <1> HIDE DEF v
  <1>2. v \in PageStates /\ v.members = u.members BY <1>1 DEF v
  <1>3. FormClosed(v) \in PageStates /\ FormClosed(v).members = v.members
    BY <1>2 DEF FormClosed, PageStates
  <1> QED BY <1>2, <1>3 DEF Finished, v

\* What an answer shows is right, and is shown to nobody who is signed out.
LEMMA ShownRight ==
    ASSUME ConsoleInv, NEW i \in DOMAIN calls, Shown(calls[i]),
           calls[i].op # "login", UNCHANGED server
    PROVE  /\ StateOK /\ list' \in Listings \cup {None} /\ Recent(list)'
           /\ Members(calls[i]) \in PageStates
           /\ tok = 0 => list' = None /\ Members(calls[i]).members = None
  <1> DEFINE c == calls[i]
  <1> USE DEF server, auth
  <1>1. Sound(c) BY CallFacts
  <1>2. StateOK /\ Recent(list) /\ SignedOutShowsNothing BY DEF ConsoleInv
  <1>3. tok = 0 /\ c.home \in {"page", "app"} => c.st # "ok"
    BY <1>1 DEF Sound, NoTokenOnPage, GotFits
  <1>4. Asked(c) = "devices" /\ c.st = "ok" =>
          c.got \in Listings \cup {None} /\ Recent(c.got)
    BY <1>1 DEF Sound, GotFits
  <1>5. Asked(c) = "members" /\ c.st = "ok" => c.got \in BOOLEAN
    BY <1>1 DEF Sound, GotFits
  <1> HIDE DEF c
  <1>6. list' = c.got \/ list' = list BY DEF Shown, c
  <1>7. list' \in Listings \cup {None} /\ Recent(list)'
    BY <1>2, <1>4 DEF Shown, StateOK, Recent, c
  <1>8. Members(c) \in PageStates
    BY <1>2, <1>5 DEF Members, StateOK, PageStates
  <1>9. tok = 0 => list' = None /\ Members(c).members = None
    BY <1>2, <1>3 DEF Shown, Members, SignedOutShowsNothing, c
  <1> QED BY <1>2, <1>7, <1>8, <1>9 DEF c

\* The answer of /auth/me may mount the page: its requests carry the token there
\* is, or none.
LEMMA MeToldKeeps ==
    ASSUME ConsoleInv, NEW i \in DOMAIN calls,
           MeTold(calls[i], RemoveAt(calls, i)), UNCHANGED server
    PROVE  ConsoleInv'
  <1> DEFINE rest == RemoveAt(calls, i)
             asked == AskList(Disown(rest), tok)
  <1> USE DEF server
  <1>1. calls[i].tok \in 0..issued BY CallFacts DEF Sound
  <1>2. StateOK' BY <1>1 DEF ConsoleInv, StateOK, MeTold
  <1>3. UNCHANGED <<tok, route, list, ui>> BY DEF MeTold
  <1>4. rest \in Seq(SoundCalls') /\ Disown(rest) \in Seq(SoundCalls')
    <2>1. rest \in Seq(SoundCalls) BY RemovedFrom DEF ConsoleInv
    <2> QED BY <1>2, <1>3, <2>1, DisownedSequence, SoundSequence DEF StateOK
  <1>5. asked \in Seq(SoundCalls')
    <2>1. Call("devices", "app", tok) \in SoundCalls'
      BY <1>2, <1>3, ReadSound DEF Reads, Homes, StateOK
    <2> QED BY <1>4, <2>1 DEF AskList
  <1>6. AskMembers(asked, route, tok) \in Seq(SoundCalls')
    <2>1. Call("members", "page", tok) \in SoundCalls'
      BY <1>2, <1>3, ReadSound DEF Reads, Homes, StateOK
    <2> HIDE DEF asked
    <2> QED BY <1>5, <2>1 DEF AskMembers
  <1>7. calls' \in Seq(SoundCalls') BY <1>4, <1>6 DEF MeTold
  <1>8. Recent(list)' BY <1>3 DEF Recent, ConsoleInv
  <1>9. SignedOutShowsNothing' BY <1>3 DEF SignedOutShowsNothing, ConsoleInv
  <1> QED BY <1>2, <1>7, <1>8, <1>9 DEF ConsoleInv

\* Signing in: the new token is one the server issued.
LEMMA LoginToldKeeps ==
    ASSUME ConsoleInv, NEW i \in DOMAIN calls,
           calls[i].op = "login", calls[i].st = "ok",
           LoginTold(calls[i], RemoveAt(calls, i)), UNCHANGED server
    PROVE  ConsoleInv'
  <1> DEFINE rest == RemoveAt(calls, i)
             got == calls[i].got
             told == Append(Disown(rest), Call("me", "auth", got))
             asked == AskList(told, got)
  <1> USE DEF server
  <1>1. got \in 1..issued BY CallFacts DEF Sound, GotFits
  <1>2. StateOK'
    <2>1. /\ tok' = got /\ user' = got /\ signing' = FALSE
          /\ UNCHANGED <<loading, route, list, ui, row, ver, member, dead, issued>>
      BY DEF LoginTold
    <2> HIDE DEF got
    <2>2. StateOK /\ got \in 0..issued' BY <1>1, <2>1 DEF ConsoleInv, StateOK
    <2> QED BY <2>1, <2>2 DEF StateOK
  <1>3. tok' = got /\ got # 0 BY <1>1 DEF LoginTold, ConsoleInv, StateOK
  <1>4. UNCHANGED <<route, list, ui>> BY DEF LoginTold
  <1>5. Disown(rest) \in Seq(SoundCalls')
    <2>1. rest \in Seq(SoundCalls) BY RemovedFrom DEF ConsoleInv
    <2> QED BY <1>2, <1>3, <2>1, DisownedSequence, SoundSequence DEF StateOK
  <1>6. PICK g : g = got OBVIOUS
  <1>7. /\ Call("me", "auth", g) \in SoundCalls'
        /\ Call("devices", "app", g) \in SoundCalls'
        /\ Call("members", "page", g) \in SoundCalls'
    BY <1>1, <1>2, <1>3, <1>6, ReadSound DEF Reads, Homes, StateOK
  <1> HIDE DEF got
  <1>8. told \in Seq(SoundCalls') BY <1>5, <1>6, <1>7
  <1> HIDE DEF told
  <1>9. asked \in Seq(SoundCalls') BY <1>6, <1>7, <1>8 DEF AskList
  <1> HIDE DEF asked
  <1>10. AskMembers(asked, route, got) \in Seq(SoundCalls')
    BY <1>6, <1>7, <1>9 DEF AskMembers
  <1>11. calls' \in Seq(SoundCalls')
    BY <1>9, <1>10 DEF LoginTold, asked, told, got
  <1>12. Recent(list)' BY <1>4 DEF Recent, ConsoleInv
  <1>13. SignedOutShowsNothing' BY <1>3 DEF SignedOutShowsNothing
  <1> QED BY <1>2, <1>11, <1>12, <1>13 DEF ConsoleInv

\* A write's handler goes on to refresh the list it changed.
LEMMA RefreshSound ==
    ASSUME StateOK, NEW c \in SoundCalls, c.op \in Writes
    PROVE  [c EXCEPT !.step = "list", !.st = "out", !.tok = tok] \in SoundCalls
  <1> DEFINE d == [c EXCEPT !.step = "list", !.st = "out", !.tok = tok]
  <1>1. c \in CallRecords /\ Sound(c) BY DEF SoundCalls
  <1>2. tok \in Nat BY DEF StateOK
  <1>3. /\ d \in CallRecords
        /\ d.op = c.op /\ d.step = "list" /\ d.st = "out" /\ d.home = c.home
        /\ d.tok = tok /\ d.put = c.put
    BY <1>1, <1>2 DEF CallRecords
  <1> HIDE DEF d
  <1>4. Sound(d)
    BY <1>1, <1>3 DEF StateOK, Sound, PutFits, MoveFits, NoTokenOnPage
  <1> QED BY <1>3, <1>4 DEF SoundCalls, d

\* The page takes an answer.
LEMMA TakeKeeps ==
    ASSUME ConsoleInv, NEW i \in DOMAIN calls, Take(i)
    PROVE  ConsoleInv'
  <1> DEFINE c == calls[i]
             rest == RemoveAt(calls, i)
  <1>1. UNCHANGED server BY DEF Take
  <1>2. StateOK /\ ui \in PageStates BY DEF ConsoleInv, StateOK
  <1>3. c \in CallRecords /\ Sound(c) BY CallFacts
  <1>4. rest \in Seq(SoundCalls) /\ Disown(rest) \in Seq(SoundCalls)
        /\ c \in SoundCalls
    <2>1. rest \in Seq(SoundCalls) BY RemovedFrom DEF ConsoleInv
    <2> QED BY <1>3, <2>1, DisownedSequence DEF SoundCalls
  <1>5. ASSUME UNCHANGED <<tok, list>>, StateOK', ui'.members = ui.members,
               NEW cs \in Seq(SoundCalls), calls' = cs
        PROVE  ConsoleInv'
    <2>1. calls' \in Seq(SoundCalls')
      BY <1>1, <1>5, SoundSequence DEF server, StateOK
    <2>2. Recent(list)' BY <1>1, <1>5 DEF Recent, ConsoleInv, server
    <2>3. SignedOutShowsNothing' BY <1>5 DEF SignedOutShowsNothing, ConsoleInv
    <2> QED BY <1>5, <2>1, <2>2, <2>3 DEF ConsoleInv
  <1>6. CASE Refused
    <2>1. 0 \in 0..issued BY <1>2 DEF StateOK
    <2> QED BY <1>1, <1>6, <2>1, LoadKeeps DEF Refused
  <1>7. CASE MeTold(c, rest) BY <1>1, <1>7, MeToldKeeps
  <1>8. CASE MeFailed(rest)
    <2>1. signing' \in BOOLEAN /\ loading' \in BOOLEAN
      BY <1>2, <1>8 DEF MeFailed, StateOK
    <2> QED BY <1>1, <1>4, <1>8, <2>1, SignOutKeeps DEF MeFailed
  <1>9. CASE c.op = "login" /\ c.st = "ok" /\ LoginTold(c, rest)
    BY <1>1, <1>9, LoginToldKeeps
  <1>10. CASE LoginFailed(c, rest)
    <2>1. StateOK' BY <1>1, <1>2, <1>10 DEF LoginFailed, StateOK, server
    <2> QED BY <1>4, <1>5, <1>10, <2>1 DEF LoginFailed
  <1>11. CASE c.op \in {"devices", "members"} /\ Shown(c) /\ ui' = Members(c)
              /\ calls' = rest
    <2>1. /\ list' \in Listings \cup {None} /\ Recent(list)'
          /\ Members(c) \in PageStates
          /\ tok = 0 => list' = None /\ Members(c).members = None
      BY <1>1, <1>11, ShownRight
    <2>2. UNCHANGED <<auth, route>> BY <1>11 DEF Shown
    <2>3. StateOK' BY <1>1, <1>2, <1>11, <2>1, <2>2 DEF StateOK, server, auth
    <2>4. calls' \in Seq(SoundCalls')
      BY <1>1, <1>4, <1>11, <2>2, <2>3, SoundSequence DEF server, auth, StateOK
    <2>5. SignedOutShowsNothing'
      BY <1>11, <2>1, <2>2 DEF SignedOutShowsNothing, auth
    <2> QED BY <2>1, <2>3, <2>4, <2>5 DEF ConsoleInv
  <1>12. CASE /\ c.op \in Writes
              /\ calls' = [calls EXCEPT ![i].step = "list", ![i].st = "out",
                                       ![i].tok = tok]
              /\ UNCHANGED <<auth, route, list, ui>>
    <2> DEFINE d == [c EXCEPT !.step = "list", !.st = "out", !.tok = tok]
    <2>1. d \in SoundCalls BY <1>2, <1>4, <1>12, RefreshSound
    <2>2. calls' = [calls EXCEPT ![i] = d] BY <1>12
    <2> HIDE DEF d
    <2>3. [calls EXCEPT ![i] = d] \in Seq(SoundCalls)
      BY <2>1, LenProperties, ExceptSeq DEF ConsoleInv
    <2>4. StateOK' BY <1>1, <1>2, <1>12 DEF StateOK, server, auth
    <2> QED BY <1>5, <1>12, <2>2, <2>3, <2>4 DEF auth
  <1>13. CASE /\ ui' = Finished(c, FALSE, ui) /\ calls' = rest
              /\ UNCHANGED <<auth, route, list>>
    <2>1. ui' \in PageStates /\ ui'.members = ui.members
      BY <1>2, <1>13, FinishedPage
    <2>2. StateOK' BY <1>1, <1>2, <1>13, <2>1 DEF StateOK, server, auth
    <2> QED BY <1>4, <1>5, <1>13, <2>1, <2>2 DEF auth
  <1>14. CASE /\ c.op \in Writes /\ Shown(c)
              /\ ui' = Finished(c, TRUE, Members(c))
              /\ calls' \in {Disown(rest), rest}
    <2>1. /\ list' \in Listings \cup {None} /\ Recent(list)'
          /\ Members(c) \in PageStates
          /\ tok = 0 => list' = None /\ Members(c).members = None
      BY <1>1, <1>14, ShownRight DEF Writes, Moves
    <2>2. UNCHANGED <<auth, route>> BY <1>14 DEF Shown
    <2>3. ui' \in PageStates /\ ui'.members = Members(c).members
      BY <1>14, <2>1, FinishedPage
    <2>4. StateOK' BY <1>1, <1>2, <2>1, <2>2, <2>3 DEF StateOK, server, auth
    <2>5. calls' \in Seq(SoundCalls')
      <3>1. /\ rest \in Seq(SoundCalls') /\ Disown(rest) \in Seq(SoundCalls')
        BY <1>1, <1>4, <2>2, <2>4, SoundSequence DEF server, auth, StateOK
      <3> QED BY <1>14, <3>1
    <2>6. SignedOutShowsNothing'
      BY <2>1, <2>2, <2>3 DEF SignedOutShowsNothing, auth
    <2> QED BY <2>1, <2>4, <2>5, <2>6 DEF ConsoleInv
  <1> QED
    BY <1>6, <1>7, <1>8, <1>9, <1>10, <1>11, <1>12, <1>13, <1>14 DEF Take

\* A document that loads with a stored token has asked /auth/me, and shows nothing.
LEMMA ConsoleInitial == ConsoleInit => ConsoleInv
  <1> SUFFICES ASSUME ConsoleInit PROVE ConsoleInv
    OBVIOUS
  <1>1. StateOK
    <2>1. row \in Assignments BY DEF ConsoleInit, Assignments
    <2>2. ui \in PageStates BY DEF ConsoleInit, PageStates, FreshPage
    <2>3. member \in BOOLEAN BY DEF ConsoleInit
    <2>4. /\ ver = 0 /\ dead = {} /\ issued = 1 /\ tok = 1 /\ user = 1
          /\ loading = TRUE /\ signing = FALSE /\ list = None
          /\ route \in {"devices", "team"}
      BY DEF ConsoleInit
    <2>5. /\ ver \in Nat /\ issued \in Nat /\ dead \subseteq 1..issued
          /\ tok \in 0..issued /\ user \in 0..issued
          /\ list \in Listings \cup {None}
      BY <2>4
    <2>6. loading \in BOOLEAN /\ signing \in BOOLEAN BY <2>4
    <2> QED BY <2>1, <2>2, <2>3, <2>4, <2>5, <2>6, Zenon DEF StateOK
  <1> DEFINE me == Call("me", "auth", 1)
  <1>2. me \in SoundCalls
    <2>1. me \in CallRecords /\ me.op = "me" /\ me.step = "send" /\ me.st = "out"
          /\ me.home = "auth" /\ me.tok = 1
      BY DEF Call, CallRecords, Ops, Reads, Homes
    <2>2. issued = 1 /\ tok = 1 BY DEF ConsoleInit
    <2> HIDE DEF me
    <2>3. Sound(me)
      BY <2>1, <2>2 DEF Sound, PutFits, MoveFits, NoTokenOnPage, Moves
    <2> QED BY <2>1, <2>3 DEF SoundCalls
  <1> HIDE DEF me
  <1>3. calls \in Seq(SoundCalls)
    <2>1. calls = <<me>> BY DEF ConsoleInit, me
    <2> QED BY <1>2, <2>1
  <1>4. Recent(list) BY DEF ConsoleInit, Recent
  <1>5. SignedOutShowsNothing BY DEF ConsoleInit, SignedOutShowsNothing
  <1> QED BY <1>1, <1>3, <1>4, <1>5 DEF ConsoleInv

\* Every step keeps the invariant.
LEMMA ConsoleNextKeeps ==
    ASSUME ConsoleInv, [ConsoleNext]_consoleVars
    PROVE  ConsoleInv'
  <1>1. CASE Reload
    <2>1. route \in {"devices", "team"} /\ tok \in 0..issued /\ user \in 0..issued
      BY DEF ConsoleInv, StateOK
    <2> QED BY <1>1, <2>1, LoadKeeps DEF Reload
  <1>2. CASE Logout
    <2>1. /\ loading' \in BOOLEAN /\ signing' \in BOOLEAN /\ UNCHANGED <<server, route>>
          /\ calls \in Seq(SoundCalls)
      BY <1>2 DEF Logout, ConsoleInv, StateOK
    <2> QED BY <1>2, <2>1, SignOutKeeps DEF Logout
  <1>3. CASE Navigate BY <1>3, NavigateKeeps
  <1>4. CASE SubmitLogin \/ RefreshDevices \/ CloseForm
             \/ \E f \in {"assign", "device", "member"} : OpenForm(f)
    BY <1>4, PageKeeps
  <1>5. CASE SubmitAssign \/ SubmitMoveIn \/ SubmitJoin
             \/ ClickDelete \/ ClickMoveOut \/ ClickPart
    BY <1>5, FormsKeep
  <1>6. CASE ServeSome BY <1>6, ServeKeeps DEF ServeSome
  <1>7. CASE TakeSome BY <1>7, TakeKeeps DEF TakeSome
  <1>8. CASE \E i \in DOMAIN calls : Fail(i) BY <1>8, FailKeeps
  <1>9. CASE Expire \/ OtherAssigns BY <1>9, EventsKeep
  <1>10. CASE UNCHANGED consoleVars
    <2> USE DEF consoleVars, server, auth
    <2>1. StateOK' BY <1>10 DEF ConsoleInv, StateOK
    <2>2. calls' \in Seq(SoundCalls')
      BY <1>10, <2>1, SoundSequence DEF ConsoleInv, StateOK
    <2>3. Recent(list)' /\ SignedOutShowsNothing'
      BY <1>10 DEF ConsoleInv, Recent, SignedOutShowsNothing
    <2> QED BY <2>1, <2>2, <2>3 DEF ConsoleInv
  <1> QED
    BY <1>1, <1>2, <1>3, <1>4, <1>5, <1>6, <1>7, <1>8, <1>9, <1>10 DEF ConsoleNext

\* The invariant holds in every behaviour of the console.
THEOREM ConsoleInvariant == ConsoleSpec => []ConsoleInv
  <1> QED BY ConsoleInitial, ConsoleNextKeeps, PTL DEF ConsoleSpec

\* Type correctness.
THEOREM ConsoleTypeCorrect == ConsoleSpec => []ConsoleTypeOK
  <1>1. ConsoleInv => ConsoleTypeOK
    <2> SUFFICES ASSUME ConsoleInv PROVE ConsoleTypeOK
      OBVIOUS
    <2>1. StateOK BY DEF ConsoleInv
    <2>2. \A i \in DOMAIN calls :
             calls[i].home \in Homes /\ calls[i].st \in {"out", "ok", "fail", "refused"}
      BY CallFacts DEF CallRecords
    <2> QED BY <2>1, <2>2 DEF StateOK, ConsoleTypeOK, PageStates
  <1> QED BY <1>1, ConsoleInvariant, PTL

\* Without a token the page shows no device and no members, however late the
\* answers of the last sign-in come (DeviceContext.tsx:30, TeamDetailPage.tsx:36).
THEOREM SignedOutShowsNothingHolds == ConsoleSpec => []SignedOutShowsNothing
  <1>1. ConsoleInv => SignedOutShowsNothing BY DEF ConsoleInv
  <1> QED BY <1>1, ConsoleInvariant, PTL

\* A team move that no write overtook since its list was read leaves the device's
\* admin as it is (TeamDetailPage.tsx:90).
THEOREM TeamMoveKeepsAdminHolds == ConsoleSpec => TeamMoveKeepsAdmin
  <1> DEFINE A == \A i \in DOMAIN calls :
          LET c == calls[i]
          IN c.op \in Moves /\ c.step = "send" /\ c.seen = ver
                /\ row' # row /\ row' = c.put /\ row # None
                /\ (i \notin DOMAIN calls' \/ calls'[i].st # c.st)
             => row'.admin = row.admin
  <1>1. ASSUME ConsoleInv PROVE A
    <2>1. \A i \in DOMAIN calls : MoveFits(calls[i])
      BY <1>1, CallFacts DEF Sound
    <2> QED BY <2>1 DEF MoveFits
  <1>2. ConsoleInv => [A]_consoleVars BY <1>1
  <1> HIDE DEF A
  <1>3. ConsoleSpec => [][A]_consoleVars BY <1>2, ConsoleInvariant, PTL DEF ConsoleSpec
  <1> QED BY <1>3 DEF TeamMoveKeepsAdmin, A
=============================================================================
