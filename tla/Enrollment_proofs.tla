------------------------- MODULE Enrollment_proofs -------------------------
(***************************************************************************)
(* Proofs about Enrollment, whatever the machines are called and whichever *)
(* of them had an old agent: an attempt made with a dead token leaves      *)
(* nothing behind, machines keep apart, a newcomer stays out of the rows   *)
(* that others have claimed, and a patient machine is let in with what it  *)
(* saved unless an old clone of it took its row.                           *)
(***************************************************************************)
EXTENDS Enrollment, TLAPS

\* The machine that holds the secret of a row.
Owner(row) == ask[row.secret].machine

\* Machines that may meet on one row: a machine and itself, and two old clones.
Kin(m, n) == m = n \/ (OldClone(m) /\ OldClone(n))

\* The machine id on a row is its owner's when the owner sent one and otherwise that of its
\* kin, and the row has the host name its owner reported.
RowFits(row) ==
  /\ ask[row.secret] # None
  /\ row.name = ask[row.secret].name
  /\ row.mid = None \/ Kin(row.mid, Owner(row))
  /\ ask[row.secret].mid # None => row.mid = ask[row.secret].mid

-----------------------------------------------------------------------------
(* Dead tokens.  These parts hold whatever the host names are. *)

AsksAreOwn ==
  /\ Machines \ OldAgents \subseteq hasId
  /\ \A a \in Attempts : ask[a] # None =>
       /\ ask[a].name \in HostNames[ask[a].machine]
       /\ ask[a].mid \in {None, ask[a].machine}
       /\ ask[a].machine \notin OldAgents => ask[a].mid = ask[a].machine
       /\ pc[a] = "bymid" => ask[a].mid # None

LateIsStuck ==
  \A a \in Attempts : ask[a] # None /\ ask[a].was = "dead" =>
    tok[ask[a].token] = "dead" /\ pc[a] \in {"token", "refused"}

HeldIsOwn == \A a \in Attempts : held[a] # None => held[a].row.secret = a

RowsAreAnswered ==
  \A r \in Attempts : rows[r] # None => pc[rows[r].secret] \in {"reply", "done"}

TokenInv ==
  EnrollTypeOK /\ AsksAreOwn /\ LateIsStuck /\ HeldIsOwn /\ RowsAreAnswered

-----------------------------------------------------------------------------
(* Whose row is whose. *)

\* What a lookup found was inserted by the machine that asked, or by its kin.
FoundIsOwn ==
  \A a \in Attempts : found[a] # None =>
    /\ ask[a] # None /\ ask[found[a]] # None
    /\ Kin(ask[found[a]].machine, ask[a].machine)

\* A row is held by the machine whose attempt inserted it, or by its kin, and fits it.
RowsFit ==
  \A r \in Attempts : rows[r] # None =>
    /\ ask[r] # None /\ Kin(ask[r].machine, Owner(rows[r]))
    /\ RowFits(rows[r])

HeldFits ==
  \A a \in Attempts : held[a] # None =>
    /\ found[a] = held[a].id
    /\ RowFits(held[a].row)

\* No machine id is on two rows, counting the rows that open transactions are about to write.
MidsDiffer ==
  /\ \A r, q \in Attempts : r # q /\ rows[r] # None /\ rows[q] # None /\ rows[r].mid # None =>
       rows[q].mid # rows[r].mid
  /\ \A a, q \in Attempts : /\ held[a] # None /\ rows[q] # None /\ q # held[a].id
                            /\ held[a].row.mid # None
                            => rows[q].mid # held[a].row.mid
  /\ \A a, b \in Attempts : a # b /\ held[a] # None /\ held[b] # None /\ held[a].row.mid # None =>
       held[b].row.mid # held[a].row.mid

OwnerInv == FoundIsOwn /\ RowsFit /\ HeldFits /\ MidsDiffer

-----------------------------------------------------------------------------
(* What a patient machine knows. *)

\* A row that was found is there, or about to be, unless it was deleted.
FoundExists ==
  \A a \in Attempts : found[a] # None =>
    \/ rows[found[a]] # None \/ found[a] \in gone
    \/ held[a] # None

\* An attempt that wrote nothing found a row that was deleted.
NothingWritten ==
  \A a \in Attempts : pc[a] = "commit" /\ held[a] = None =>
    found[a] \in gone

\* An attempt of a patient machine that is running is the one it waits for.
WaitsForItsOwn ==
  /\ \A m \in Machines : waiting[m] # None =>
       ask[waiting[m]] # None /\ ask[waiting[m]].machine = m
  /\ \A a \in Attempts :
       /\ ask[a] # None /\ ask[a].machine \notin Impatient
       /\ pc[a] \notin {"refused", "done"}
       => waiting[ask[a].machine] = a

\* Row r of machine m has another machine's secret: an old clone's.
TakenFrom(m, r) ==
  OldClone(m) /\ rows[r] # None /\ ask[rows[r].secret].machine # m

\* The row an answer names has the secret of that attempt, or was deleted or taken since.
GoodRow(m, r, secret) ==
  \/ r \in gone
  \/ rows[r] # None /\ rows[r].secret = secret
  \/ TakenFrom(m, r)

\* The answer on its way to a patient machine names a row that is good.
AnswerIsGood ==
  \A m \in Machines \ Impatient :
    LET a == waiting[m] IN
    a # None /\ pc[a] \in {"reply", "done"} => GoodRow(m, found[a], a)

\* What it saved is good until the attempt it waits for has committed.
SavedIsGood ==
  \A m \in Machines : identity[m] # None =>
    /\ ask[identity[m].device] # None /\ Kin(ask[identity[m].device].machine, m)
    /\ m \notin Impatient /\ (waiting[m] = None \/ pc[waiting[m]] \notin {"reply", "done"}) =>
         GoodRow(m, identity[m].device, identity[m].secret)

PatientInv ==
  FoundExists /\ NothingWritten /\ WaitsForItsOwn /\ AnswerIsGood /\ SavedIsGood

-----------------------------------------------------------------------------
(* Why a newcomer stays out of claimed rows. *)

\* An attempt that has inserted its row is past its commit.
Inserted(r) == pc[r] \in {"reply", "done"}

\* The row an attempt wrote is the one it found.
RowsAreFound ==
  \A r \in Attempts : rows[r] # None => Inserted(r) /\ found[rows[r].secret] = r

\* An open transaction holds the row it inserts or one that exists; two of them never hold the
\* same; and one without a machine id keeps the id the row has.
HeldRows ==
  \A a \in Attempts : held[a] # None =>
    /\ held[a].id = a \/ Inserted(held[a].id)
    /\ \A b \in Attempts \ {a} : held[b] # None => held[b].id # held[a].id
    /\ ask[a].mid = None /\ rows[held[a].id] # None =>
         held[a].row.mid = rows[held[a].id].mid

\* Row r has the machine id of somebody other than m, now and after any open transaction.
ClosedTo(m, r) ==
  /\ rows[r] # None => rows[r].mid \notin {None, m}
  /\ \A b \in Attempts : held[b] # None /\ held[b].id = r => held[b].row.mid \notin {None, m}

\* The rows that others had claimed exist, and stay closed to a patient newcomer until it has
\* looked; so it finds none of them.
OthersStayClosed ==
  \A a \in Attempts : ask[a] # None => \A r \in ask[a].others :
    /\ Inserted(r)
    /\ ask[a].mid # None /\ ask[a].machine \notin Impatient =>
         /\ found[a] # r
         /\ pc[a] \in {"token", "bymid", "byname"} => ClosedTo(ask[a].machine, r)

NewcomerInv == RowsAreFound /\ HeldRows /\ OthersStayClosed

EnrollInv == TokenInv /\ OwnerInv /\ PatientInv /\ NewcomerInv

-----------------------------------------------------------------------------
(* Every step keeps the types, and what an attempt carries never changes. *)

\* Every transaction of redeemToken ends in one of these two ways.
WriteStep(a) ==
  \E r \in Attempts, mid \in Machines \cup {None} : WriteRow(a, r, mid)

\* An INSERT or UPDATE writes a row that exists as an id, with a machine id or none.
LEMMA WritesAreTyped ==
  ASSUME EnrollTypeOK, NEW a \in Attempts, Insert(a) \/ Update(a)
  PROVE  /\ pc[a] = "write" /\ held[a] = None /\ ask[a] \in Asks
         /\ WriteStep(a)
<1>1. pc[a] = "write" /\ held[a] = None /\ ask[a] \in Asks
  BY DEF Insert, Update, EnrollTypeOK
<1>2. CASE Insert(a)
  BY <1>1, <1>2 DEF Insert, WriteStep, Asks
<1>3. CASE Update(a)
  <2>1. found[a] \in Attempts /\ rows[found[a]] \in Rows
    BY <1>3 DEF Update, EnrollTypeOK
  <2>2. (IF ask[a].mid # None THEN ask[a].mid ELSE rows[found[a]].mid) \in Machines \cup {None}
    BY <1>1, <2>1 DEF Asks, Rows
  <2> QED BY <1>1, <1>3, <2>1, <2>2 DEF Update, WriteStep
<1> QED BY <1>1, <1>2, <1>3

\* One step of any action.
LEMMA TypeStep ==
  ASSUME EnrollTypeOK, [EnrollNext]_vars
  PROVE  /\ EnrollTypeOK'
         /\ \A a \in Attempts : ask[a] # None => ask'[a] = ask[a]
<1> USE EnrollAssumption DEF EnrollTypeOK, Stages
<1>1. CASE UNCHANGED vars
  BY <1>1 DEF vars
<1>2. ASSUME NEW t \in Tokens, GenerateToken(t) \/ KillToken(t)
      PROVE  EnrollTypeOK' /\ ask' = ask
  BY <1>2 DEF GenerateToken, KillToken
<1>3. ASSUME NEW r \in Attempts, DeleteDevice(r)
      PROVE  EnrollTypeOK' /\ ask' = ask
  BY <1>3 DEF DeleteDevice
<1>4. ASSUME NEW m \in Machines, NEW a \in Attempts, NEW t \in Tokens, NEW n \in Names,
             Request(m, a, t, n)
      PROVE  EnrollTypeOK' /\ \A b \in Attempts : ask[b] # None => ask'[b] = ask[b]
  <2>1. ask'[a] \in Asks /\ pc'[a] = "token" /\ pc[a] = "unsent"
    <3>1. tok[t] \in {"live", "dead"} /\ ClaimedByOthers(m) \subseteq Attempts
      BY <1>4 DEF Request, ClaimedByOthers
    <3> QED BY <1>4, <3>1 DEF Request, Asks
  <2>2. ask' \in [Attempts -> Asks \cup {None}]
        /\ \A b \in Attempts \ {a} : ask'[b] = ask[b]
    BY <1>4, <2>1 DEF Request
  <2> QED BY <1>4, <2>1, <2>2 DEF Request
<1>5. ASSUME NEW m \in Machines, Abandon(m) \/ Refused(m) \/ Upgrade(m)
      PROVE  EnrollTypeOK' /\ ask' = ask
  BY <1>5 DEF Abandon, Refused, Upgrade
<1>6. ASSUME NEW m \in Machines, Save(m)
      PROVE  EnrollTypeOK' /\ ask' = ask
  <2>1. waiting[m] \in Attempts
    BY <1>6 DEF Save
  <2>2. [device |-> found[waiting[m]], secret |-> waiting[m]] \in Identities
    BY <1>6, <2>1 DEF Save, Identities
  <2> QED BY <1>6, <2>1, <2>2 DEF Save
<1>7. ASSUME NEW a \in Attempts, ReadToken(a) \/ FindByMachine(a) \/ FindByName(a)
                                 \/ UpdateNothing(a) \/ Commit(a) \/ Reply(a)
      PROVE  EnrollTypeOK' /\ ask' = ask
  <2>1. CASE ReadToken(a) \/ UpdateNothing(a) \/ Reply(a)
    BY <2>1 DEF ReadToken, UpdateNothing, Reply
  <2>2. CASE FindByMachine(a) \/ FindByName(a)
    BY <2>2 DEF FindByMachine, FindByName, WithMid, Adoptable
  <2>3. CASE Commit(a)
    BY <2>3 DEF Commit, Holds
  <2> QED BY <1>7, <2>1, <2>2, <2>3
<1>8. ASSUME NEW a \in Attempts, Insert(a) \/ Update(a)
      PROVE  EnrollTypeOK' /\ ask' = ask
  <2>1. pc[a] = "write" /\ held[a] = None /\ ask[a] \in Asks /\ WriteStep(a)
    BY <1>8, WritesAreTyped
  <2>2. PICK r \in Attempts, mid \in Machines \cup {None} : WriteRow(a, r, mid)
    BY <2>1 DEF WriteStep
  <2> DEFINE row == [name |-> ask[a].name, mid |-> mid, secret |-> a, token |-> ask[a].token]
  <2>3. row \in Rows /\ [id |-> r, row |-> row] \in Holds
    BY <2>1 DEF Asks, Rows, Holds
  <2> QED BY <2>1, <2>2, <2>3 DEF WriteRow
<1> QED
  BY <1>1, <1>2, <1>3, <1>4, <1>5, <1>6, <1>7, <1>8 DEF EnrollNext, RedeemStep

-----------------------------------------------------------------------------
(* Dead tokens enroll nothing. *)

\* Nothing has been asked, held or stored yet.
LEMMA TokenStart == EnrollInit => TokenInv
BY EnrollAssumption
   DEF EnrollInit, TokenInv, EnrollTypeOK, Stages, AsksAreOwn, LateIsStuck, HeldIsOwn,
       RowsAreAnswered

\* A late attempt is refused where the token is read, and no other step lets it pass.
LEMMA TokenStep ==
  ASSUME TokenInv, [EnrollNext]_vars
  PROVE  TokenInv'
<1>1. EnrollTypeOK' /\ \A a \in Attempts : ask[a] # None => ask'[a] = ask[a]
  BY TypeStep DEF TokenInv
<1>2. SUFFICES AsksAreOwn' /\ LateIsStuck' /\ HeldIsOwn' /\ RowsAreAnswered'
  BY <1>1 DEF TokenInv
<1> USE DEF TokenInv
<1>3. CASE UNCHANGED vars
  BY <1>3 DEF vars, AsksAreOwn, LateIsStuck, HeldIsOwn, RowsAreAnswered
<1>4. ASSUME NEW t \in Tokens, GenerateToken(t) \/ KillToken(t)
      PROVE  AsksAreOwn' /\ LateIsStuck' /\ HeldIsOwn' /\ RowsAreAnswered'
  <2>2. \A u \in Tokens : tok[u] = "dead" => tok'[u] = "dead"
    BY <1>4 DEF GenerateToken, KillToken, EnrollTypeOK
  <2>3. LateIsStuck'
    <3>1. \A a \in Attempts : ask[a] # None => ask[a].token \in Tokens
      BY DEF EnrollTypeOK, Asks
    <3> QED BY <1>4, <2>2, <3>1 DEF GenerateToken, KillToken, LateIsStuck
  <2> QED BY <1>4, <2>3 DEF GenerateToken, KillToken, AsksAreOwn, HeldIsOwn, RowsAreAnswered
<1>5. ASSUME NEW r \in Attempts, DeleteDevice(r)
      PROVE  AsksAreOwn' /\ LateIsStuck' /\ HeldIsOwn' /\ RowsAreAnswered'
  BY <1>5 DEF DeleteDevice, EnrollTypeOK, AsksAreOwn, LateIsStuck, HeldIsOwn, RowsAreAnswered
<1>6. ASSUME NEW m \in Machines, NEW a \in Attempts, NEW t \in Tokens, NEW n \in Names,
             Request(m, a, t, n)
      PROVE  AsksAreOwn' /\ LateIsStuck' /\ HeldIsOwn' /\ RowsAreAnswered'
  <2>1. /\ ask[a] = None /\ pc[a] = "unsent" /\ pc'[a] = "token" /\ n \in HostNames[m]
        /\ ask'[a] = [machine |-> m, mid |-> IF m \in hasId THEN m ELSE None,
                      name |-> n, token |-> t, was |-> tok[t], others |-> ClaimedByOthers(m)]
    BY <1>6 DEF Request, EnrollTypeOK
  <2>2. \A b \in Attempts \ {a} : ask'[b] = ask[b] /\ pc'[b] = pc[b]
    BY <1>6 DEF Request, EnrollTypeOK
  <2>3. AsksAreOwn'
    <3>1. m \in OldAgents \/ m \in hasId
      BY DEF AsksAreOwn
    <3>2. /\ ask'[a].machine = m /\ ask'[a].name = n
          /\ ask'[a].mid \in {None, m} /\ (m \notin OldAgents => ask'[a].mid = m)
      BY <2>1, <3>1
    <3> QED BY <1>6, <2>1, <2>2, <3>2 DEF Request, AsksAreOwn
  <2>4. LateIsStuck'
    <3>1. ask'[a].token = t
      BY <2>1
    <3>2. ask'[a].was = tok[t]
      BY <2>1
    <3> QED BY <1>6, <2>1, <2>2, <3>1, <3>2 DEF Request, LateIsStuck
  <2>5. HeldIsOwn'
    BY <1>6 DEF Request, HeldIsOwn
  <2>6. RowsAreAnswered'
    <3>1. \A r \in Attempts : rows[r] # None => rows[r].secret \in Attempts
      BY DEF EnrollTypeOK, Rows
    <3> QED BY <1>6, <2>1, <2>2, <3>1 DEF Request, RowsAreAnswered
  <2> QED BY <2>3, <2>4, <2>5, <2>6
<1>7. ASSUME NEW m \in Machines, Abandon(m) \/ Save(m) \/ Refused(m) \/ Upgrade(m)
      PROVE  AsksAreOwn' /\ LateIsStuck' /\ HeldIsOwn' /\ RowsAreAnswered'
  BY <1>7 DEF Abandon, Save, Refused, Upgrade, AsksAreOwn, LateIsStuck, HeldIsOwn,
              RowsAreAnswered
<1>8. ASSUME NEW a \in Attempts, RedeemStep(a)
      PROVE  AsksAreOwn' /\ LateIsStuck' /\ HeldIsOwn' /\ RowsAreAnswered'
  <2>1. ask' = ask /\ tok' = tok /\ hasId' = hasId
    BY <1>8 DEF RedeemStep, ReadToken, FindByMachine, FindByName, Insert, Update, WriteRow,
                UpdateNothing, Commit, Reply
  <2>2. /\ \A b \in Attempts \ {a} : pc'[b] = pc[b] /\ held'[b] = held[b]
        /\ pc[a] \in {"reply", "done"} => pc'[a] \in {"reply", "done"}
    <3>1. CASE ReadToken(a) \/ FindByMachine(a) \/ FindByName(a) \/ UpdateNothing(a) \/ Reply(a)
      BY <3>1 DEF ReadToken, FindByMachine, FindByName, UpdateNothing, Reply, EnrollTypeOK
    <3>2. CASE Insert(a) \/ Update(a)
      BY <3>2 DEF Insert, Update, WriteRow, EnrollTypeOK
    <3>3. CASE Commit(a)
      BY <3>3 DEF Commit, EnrollTypeOK
    <3> QED BY <1>8, <3>1, <3>2, <3>3 DEF RedeemStep
  <2>3. AsksAreOwn'
    <3>1. pc'[a] = "bymid" => ask[a].mid # None
      BY <1>8 DEF RedeemStep, ReadToken, FindByMachine, FindByName, Insert, Update, WriteRow,
                  UpdateNothing, Commit, Reply, EnrollTypeOK
    <3> QED BY <2>1, <2>2, <3>1 DEF AsksAreOwn
  <2>4. LateIsStuck'
    <3>1. SUFFICES ASSUME ask[a] # None, ask[a].was = "dead"
                   PROVE  pc'[a] \in {"token", "refused"}
      BY <2>1, <2>2 DEF LateIsStuck
    <3>2. tok[ask[a].token] = "dead" /\ pc[a] \in {"token", "refused"}
      BY <3>1 DEF LateIsStuck
    <3>3. ReadToken(a)
      BY <1>8, <3>2 DEF RedeemStep, FindByMachine, FindByName, Insert, Update,
                        UpdateNothing, Commit, Reply
    <3>4. tok[ask[a].token] # "live"
      BY <3>2
    <3> QED BY <3>3, <3>4 DEF ReadToken, EnrollTypeOK
  <2>5. HeldIsOwn'
    <3>1. CASE Insert(a) \/ Update(a)
      BY <2>2, <3>1 DEF Insert, Update, WriteRow, EnrollTypeOK, HeldIsOwn
    <3>2. CASE Commit(a)
      BY <2>2, <3>2 DEF Commit, EnrollTypeOK, HeldIsOwn
    <3> QED BY <1>8, <3>1, <3>2 DEF RedeemStep, ReadToken, FindByMachine, FindByName,
                                    UpdateNothing, Reply, HeldIsOwn
  <2>6. RowsAreAnswered'
    <3>1. \A r \in Attempts : rows[r] # None => rows[r].secret \in Attempts
      BY DEF EnrollTypeOK, Rows
    <3>2. CASE Commit(a) /\ held[a] # None
      <4>1. held[a].id \in Attempts /\ held[a].row.secret = a /\ pc'[a] = "reply"
        BY <3>2 DEF Commit, EnrollTypeOK, Holds, HeldIsOwn
      <4> QED BY <2>2, <3>1, <3>2, <4>1 DEF Commit, EnrollTypeOK, RowsAreAnswered
    <3>3. CASE rows' = rows
      BY <2>2, <3>1, <3>3 DEF RowsAreAnswered
    <3> QED BY <1>8, <3>2, <3>3 DEF RedeemStep, ReadToken, FindByMachine, FindByName,
                                    Insert, Update, WriteRow, UpdateNothing, Commit, Reply
  <2> QED BY <2>3, <2>4, <2>5, <2>6
<1> QED
  BY <1>3, <1>4, <1>5, <1>6, <1>7, <1>8 DEF EnrollNext

-----------------------------------------------------------------------------
(* A lookup finds a row of the asking machine or of its kin, and a write fits it. *)

\* Who may meet whom on a row is an equivalence.
LEMMA KinIsEquivalence ==
  ASSUME NEW m, NEW n, NEW o, Kin(m, n)
  PROVE  Kin(n, m) /\ (Kin(n, o) => Kin(m, o))
BY DEF Kin

\* Two machines with a host name in common are kin when one had an old agent.
LEMMA ClonesAreKin ==
  ASSUME NEW m \in Machines, NEW o \in Machines, m \in OldAgents \/ o \in OldAgents,
         HostNames[m] \cap HostNames[o] # {}
  PROVE  Kin(o, m)
BY DEF Kin, OldClone

\* The rows with a machine's id were inserted by it, or by its kin.
LEMMA FoundByMachine ==
  ASSUME TokenInv, OwnerInv, NEW a \in Attempts, pc[a] = "bymid",
         NEW r \in WithMid(ask[a].mid)
  PROVE  ask[r] # None /\ Kin(ask[r].machine, ask[a].machine)
<1>1. ask[a] # None /\ ask[a].mid = ask[a].machine
  BY DEF TokenInv, EnrollTypeOK, AsksAreOwn
<1>2. r \in Attempts /\ rows[r] # None /\ rows[r].mid = ask[a].machine
  BY <1>1 DEF WithMid
<1>3. ask[a].machine # None
  BY <1>1, EnrollAssumption DEF TokenInv, EnrollTypeOK, Asks
<1>4. ask[r] # None /\ Kin(ask[r].machine, Owner(rows[r])) /\ Kin(ask[a].machine, Owner(rows[r]))
  BY <1>2, <1>3 DEF OwnerInv, RowsFit, RowFits
<1> QED
  BY <1>4, KinIsEquivalence

\* The rows a machine adopts by name were inserted by it, or by its kin: one of the two did
\* not send a machine id.
LEMMA FoundByName ==
  ASSUME TokenInv, OwnerInv, NEW a \in Attempts, pc[a] = "byname",
         NEW r \in Adoptable(a)
  PROVE  ask[r] # None /\ Kin(ask[r].machine, ask[a].machine)
<1> DEFINE row == rows[r]
           m   == ask[a].machine
           o   == Owner(row)
<1>1. /\ r \in Attempts /\ row # None /\ row.name = ask[a].name
      /\ ask[a].mid # None => row.mid = None
  BY DEF Adoptable
<1>2. /\ ask[a] # None /\ m \in Machines /\ ask[a].name \in HostNames[m]
      /\ m \notin OldAgents => ask[a].mid = m
  BY DEF TokenInv, EnrollTypeOK, AsksAreOwn, Asks
<1>3. ask[r] # None /\ Kin(ask[r].machine, o) /\ RowFits(row)
  BY <1>1 DEF OwnerInv, RowsFit
<1>4. /\ o \in Machines /\ ask[a].name \in HostNames[o]
      /\ o \notin OldAgents => row.mid = o
  <2>1. row.secret \in Attempts
    BY <1>1 DEF TokenInv, EnrollTypeOK, Rows
  <2>2. /\ o \in Machines /\ ask[row.secret].name \in HostNames[o]
        /\ o \notin OldAgents => ask[row.secret].mid = o
    BY <1>3, <2>1 DEF TokenInv, EnrollTypeOK, AsksAreOwn, Asks, RowFits, Owner
  <2> QED BY <1>1, <1>3, <2>2, EnrollAssumption DEF RowFits
<1>5. m \in OldAgents \/ o \in OldAgents
  BY <1>1, <1>2, <1>4, EnrollAssumption
<1>6. HostNames[m] \cap HostNames[o] # {}
  BY <1>2, <1>4
<1>7. Kin(o, m)
  BY <1>2, <1>4, <1>5, <1>6, ClonesAreKin
<1> QED
  BY <1>3, <1>7, KinIsEquivalence

\* What a transaction writes.
WriteFits(a, r, mid) ==
  /\ WriteRow(a, r, mid)
  /\ ask[r] # None /\ Kin(ask[r].machine, ask[a].machine)
  /\ mid = None \/ Kin(mid, ask[a].machine)
  /\ ask[a].mid # None => mid = ask[a].mid

\* An INSERT writes the attempt's own row, an UPDATE the one that was found.
LEMMA WritesFit ==
  ASSUME TokenInv, OwnerInv, NEW a \in Attempts, Insert(a) \/ Update(a)
  PROVE  \E r \in Attempts, mid \in Machines \cup {None} : WriteFits(a, r, mid)
<1>1. ask[a] # None /\ ask[a].machine \in Machines /\ ask[a].mid \in {None, ask[a].machine}
  <2>1. ask[a] \in Asks
    BY WritesAreTyped DEF TokenInv
  <2> QED BY <2>1, EnrollAssumption DEF TokenInv, AsksAreOwn, Asks
<1>2. CASE Insert(a)
  <2>1. WriteFits(a, a, ask[a].mid)
    BY <1>1, <1>2 DEF Insert, WriteFits, Kin
  <2> QED BY <1>1, <2>1
<1>3. CASE Update(a)
  <2> DEFINE r   == found[a]
             mid == IF ask[a].mid # None THEN ask[a].mid ELSE rows[r].mid
  <2>1. r \in Attempts /\ rows[r] # None /\ WriteRow(a, r, mid)
    BY <1>3 DEF Update, TokenInv, EnrollTypeOK
  <2>2. ask[r] # None /\ Kin(ask[r].machine, ask[a].machine)
    BY <2>1, EnrollAssumption DEF OwnerInv, FoundIsOwn
  <2>3. rows[r].mid = None \/ Kin(rows[r].mid, ask[a].machine)
    <3>1. Kin(ask[r].machine, Owner(rows[r])) /\ RowFits(rows[r])
      BY <2>1 DEF OwnerInv, RowsFit
    <3>2. rows[r].mid = None \/ Kin(rows[r].mid, Owner(rows[r]))
      BY <3>1 DEF RowFits
    <3> QED BY <2>2, <3>1, <3>2, KinIsEquivalence
  <2>4. WriteFits(a, r, mid)
    BY <1>1, <2>1, <2>2, <2>3 DEF WriteFits, Kin
  <2>5. mid \in Machines \cup {None}
    BY <1>1, <2>1 DEF TokenInv, EnrollTypeOK, Rows
  <2> QED BY <2>1, <2>4, <2>5
<1> QED BY <1>2, <1>3

-----------------------------------------------------------------------------
(* Machines keep apart. *)

\* There are no rows yet.
LEMMA OwnerStart == EnrollInit => OwnerInv
BY DEF EnrollInit, OwnerInv, FoundIsOwn, RowsFit, HeldFits, MidsDiffer

\* A fit is about attempts that have been made, whose bodies stay as they are.
LEMMA FitStays ==
  ASSUME NEW row \in Rows, RowFits(row),
         \A a \in Attempts : ask[a] # None => ask'[a] = ask[a]
  PROVE  RowFits(row)' /\ Owner(row)' = Owner(row)
BY DEF RowFits, Owner, Rows

\* The index and the locks keep machine ids apart while transactions overlap; the lookups
\* keep rows with their machines.
LEMMA OwnerStep ==
  ASSUME TokenInv, OwnerInv, [EnrollNext]_vars
  PROVE  OwnerInv'
<1>1. \A a \in Attempts : ask[a] # None => ask'[a] = ask[a]
  BY TypeStep DEF TokenInv
<1>2. EnrollTypeOK
  BY DEF TokenInv
<1>3. \A a \in Attempts : held[a] # None => held[a].id \in Attempts /\ held[a].row \in Rows
  BY <1>2 DEF EnrollTypeOK, Holds
<1>4. \A r \in Attempts : rows[r] # None => rows[r] \in Rows
  BY <1>2 DEF EnrollTypeOK
\* Where the attempts' part of the state is left alone, or only rows go.
<1>5. ASSUME found' = found, held' = held,
             \A r \in Attempts : rows'[r] \in {rows[r], None}
      PROVE  OwnerInv'
  <2>1. FoundIsOwn'
    <3>1. \A a \in Attempts : found[a] # None => found[a] \in Attempts
      BY <1>2 DEF EnrollTypeOK
    <3>2. SUFFICES ASSUME NEW a \in Attempts, found[a] # None
                   PROVE  ask'[a] # None /\ ask'[found[a]] # None
                          /\ Kin(ask'[found[a]].machine, ask'[a].machine)
      BY <1>5 DEF FoundIsOwn
    <3>3. /\ ask[a] # None /\ ask[found[a]] # None
          /\ Kin(ask[found[a]].machine, ask[a].machine)
      BY <3>2 DEF OwnerInv, FoundIsOwn
    <3> QED BY <1>1, <3>1, <3>2, <3>3
  <2>2. RowsFit'
    <3>1. SUFFICES ASSUME NEW r \in Attempts, rows'[r] # None
                   PROVE  /\ ask'[r] # None /\ Kin(ask'[r].machine, Owner(rows[r])')
                          /\ RowFits(rows[r])' /\ rows'[r] = rows[r]
      BY DEF RowsFit, RowFits, Owner
    <3>2. rows'[r] = rows[r] /\ rows[r] # None
      BY <1>5, <3>1
    <3>3. ask[r] # None /\ Kin(ask[r].machine, Owner(rows[r])) /\ RowFits(rows[r])
      BY <3>2 DEF OwnerInv, RowsFit
    <3>4. \A x \in Rows : RowFits(x) => RowFits(x)' /\ Owner(x)' = Owner(x)
      BY <1>1, FitStays
    <3>5. rows[r] \in Rows
      BY <1>4, <3>2
    <3> QED BY <1>1, <3>2, <3>3, <3>4, <3>5 DEF Owner, RowFits
  <2>3. HeldFits'
    BY <1>1, <1>3, <1>5, FitStays DEF OwnerInv, HeldFits, RowFits, Owner, Rows
  <2>4. MidsDiffer'
    BY <1>5 DEF OwnerInv, MidsDiffer
  <2> QED BY <2>1, <2>2, <2>3, <2>4 DEF OwnerInv
<1>6. CASE UNCHANGED vars
  BY <1>5, <1>6 DEF vars
<1>7. ASSUME NEW t \in Tokens, GenerateToken(t) \/ KillToken(t)
      PROVE  OwnerInv'
  BY <1>5, <1>7 DEF GenerateToken, KillToken
<1>8. ASSUME NEW r \in Attempts, DeleteDevice(r)
      PROVE  OwnerInv'
  BY <1>2, <1>5, <1>8 DEF DeleteDevice, EnrollTypeOK
<1>9. ASSUME NEW m \in Machines,
             \/ \E a \in Attempts, t \in Tokens, n \in Names : Request(m, a, t, n)
             \/ Abandon(m) \/ Save(m) \/ Refused(m) \/ Upgrade(m)
      PROVE  OwnerInv'
  BY <1>5, <1>9 DEF Request, Abandon, Save, Refused, Upgrade
<1>10. ASSUME NEW a \in Attempts, ReadToken(a) \/ UpdateNothing(a) \/ Reply(a)
       PROVE  OwnerInv'
  BY <1>5, <1>10 DEF ReadToken, UpdateNothing, Reply
<1>11. ASSUME NEW a \in Attempts, FindByMachine(a) \/ FindByName(a)
       PROVE  OwnerInv'
  <2>1. held[a] = None /\ rows' = rows /\ held' = held /\ ask' = ask /\ ask[a] # None
    BY <1>2, <1>11 DEF FindByMachine, FindByName, EnrollTypeOK
  <2>2. /\ \A b \in Attempts \ {a} : found'[b] = found[b]
        /\ found'[a] = found[a]
           \/ (found'[a] \in Attempts /\ ask[found'[a]] # None
               /\ Kin(ask[found'[a]].machine, ask[a].machine))
    <3>1. CASE FindByMachine(a) /\ found' # found
      <4>1. PICK r \in WithMid(ask[a].mid) : found' = [found EXCEPT ![a] = r]
        BY <3>1 DEF FindByMachine
      <4>2. ask[r] # None /\ Kin(ask[r].machine, ask[a].machine)
        BY <3>1, <4>1, FoundByMachine DEF FindByMachine
      <4>3. r \in Attempts
        BY <4>1 DEF WithMid
      <4> QED BY <1>2, <4>1, <4>2, <4>3 DEF EnrollTypeOK
    <3>2. CASE FindByName(a) /\ found' # found
      <4>1. PICK r \in Adoptable(a) : found' = [found EXCEPT ![a] = r]
        BY <3>2 DEF FindByName
      <4>2. ask[r] # None /\ Kin(ask[r].machine, ask[a].machine)
        BY <3>2, <4>1, FoundByName DEF FindByName
      <4>3. r \in Attempts
        BY <4>1 DEF Adoptable
      <4> QED BY <1>2, <4>1, <4>2, <4>3 DEF EnrollTypeOK
    <3> QED BY <1>11, <3>1, <3>2
  <2>3. FoundIsOwn'
    BY <2>1, <2>2 DEF OwnerInv, FoundIsOwn
  <2>4. RowsFit' /\ MidsDiffer'
    BY <2>1 DEF OwnerInv, RowsFit, MidsDiffer, RowFits, Owner
  <2>5. HeldFits'
    BY <2>1, <2>2 DEF OwnerInv, HeldFits, RowFits, Owner
  <2> QED BY <2>3, <2>4, <2>5 DEF OwnerInv
<1>12. ASSUME NEW a \in Attempts, Insert(a) \/ Update(a)
       PROVE  OwnerInv'
  <2>1. PICK r \in Attempts, mid \in Machines \cup {None} : WriteFits(a, r, mid)
    BY <1>12, WritesFit
  <2>2. /\ pc[a] = "write" /\ held[a] = None /\ ask[a] # None /\ ask[a] \in Asks
        /\ rows' = rows /\ ask' = ask /\ ~ MustWait(r, mid)
    BY <1>2, <1>12, <2>1, WritesAreTyped DEF WriteFits, WriteRow, EnrollTypeOK
  <2>3. CASE Taken(r, mid)
    BY <1>5, <2>1, <2>2, <2>3 DEF WriteFits, WriteRow
  <2>4. CASE ~ Taken(r, mid)
    <3> DEFINE row == [name |-> ask[a].name, mid |-> mid, secret |-> a, token |-> ask[a].token]
    <3>1. /\ held'[a] = [id |-> r, row |-> row] /\ found'[a] = r
          /\ \A b \in Attempts \ {a} : held'[b] = held[b] /\ found'[b] = found[b]
      BY <1>2, <2>1, <2>4 DEF WriteFits, WriteRow, EnrollTypeOK
    <3>2. held'[a].id = r /\ held'[a].row = row /\ row.mid = mid
      BY <3>1
    <3>3. FoundIsOwn'
      BY <2>1, <2>2, <3>1 DEF OwnerInv, FoundIsOwn, WriteFits
    <3>4. RowsFit'
      BY <2>2 DEF OwnerInv, RowsFit, RowFits, Owner
    <3>5. RowFits(row)
      BY <2>1, <2>2 DEF RowFits, Owner, WriteFits
    <3>6. HeldFits'
      BY <2>2, <3>1, <3>2, <3>5 DEF OwnerInv, HeldFits, RowFits, Owner
    <3>7. mid # None => \A q \in Attempts \ {r} : rows[q] # None => rows[q].mid # mid
      BY <2>4 DEF Taken, WithMid
    <3>8. mid # None => \A b \in Attempts \ {a} : held[b] # None => held[b].row.mid # mid
      BY <1>2, <2>2 DEF MustWait, Open, HeldMids, EnrollTypeOK
    <3>9. MidsDiffer'
      BY <2>2, <3>1, <3>2, <3>7, <3>8 DEF OwnerInv, MidsDiffer
    <3> QED BY <3>3, <3>4, <3>6, <3>9 DEF OwnerInv
  <2> QED BY <2>3, <2>4
<1>13. ASSUME NEW a \in Attempts, Commit(a)
       PROVE  OwnerInv'
  <2>1. CASE held[a] = None
    <3>1. held' = held
      BY <1>2, <1>13, <2>1 DEF Commit, EnrollTypeOK
    <3> QED BY <1>5, <1>13, <2>1, <3>1 DEF Commit
  <2>2. CASE held[a] # None
    <3> DEFINE i   == held[a].id
               row == held[a].row
    <3>1. /\ i \in Attempts /\ rows'[i] = row /\ held'[a] = None
          /\ found' = found /\ ask' = ask
          /\ \A q \in Attempts \ {i} : rows'[q] = rows[q]
          /\ \A b \in Attempts \ {a} : held'[b] = held[b]
      BY <1>2, <1>3, <1>13, <2>2 DEF Commit, EnrollTypeOK
    <3>2. FoundIsOwn' /\ HeldFits'
      BY <3>1 DEF OwnerInv, FoundIsOwn, HeldFits, RowFits, Owner
    <3>3. /\ found[a] = i /\ RowFits(row) /\ row.secret = a
          /\ ask[i] # None /\ Kin(ask[i].machine, ask[a].machine)
      BY <2>2, <3>1, EnrollAssumption DEF TokenInv, HeldIsOwn, OwnerInv, HeldFits, FoundIsOwn
    <3>4. RowsFit'
      BY <3>1, <3>3 DEF OwnerInv, RowsFit, RowFits, Owner
    <3>5. MidsDiffer'
      BY <2>2, <3>1 DEF OwnerInv, MidsDiffer
    <3> QED BY <3>2, <3>4, <3>5 DEF OwnerInv
  <2> QED BY <2>1, <2>2
<1> QED
  BY <1>6, <1>7, <1>8, <1>9, <1>10, <1>11, <1>12, <1>13 DEF EnrollNext, RedeemStep

-----------------------------------------------------------------------------
(* A patient machine is let in. *)

\* Nobody has enrolled yet.
LEMMA PatientStart == EnrollInit => PatientInv
BY DEF EnrollInit, PatientInv, FoundExists, NothingWritten, WaitsForItsOwn, AnswerIsGood,
       SavedIsGood

\* The steps of administrators.
LEMMA PatientAdministration ==
  ASSUME TokenInv, PatientInv,
         \/ UNCHANGED vars
         \/ \E t \in Tokens : GenerateToken(t) \/ KillToken(t)
         \/ \E r \in Attempts : DeleteDevice(r)
  PROVE  PatientInv'
<1>1. /\ UNCHANGED <<pc, ask, found, held, waiting, identity>>
      /\ gone \subseteq gone'
      /\ \A r \in Attempts : rows'[r] = rows[r] \/ (rows'[r] = None /\ r \in gone')
  BY DEF vars, GenerateToken, KillToken, DeleteDevice, TokenInv, EnrollTypeOK
<1>2. /\ found \in [Attempts -> Attempts \cup {None}]
      /\ waiting \in [Machines -> Attempts \cup {None}]
      /\ \A m \in Machines : identity[m] # None => identity[m].device \in Attempts
  BY DEF TokenInv, EnrollTypeOK, Identities
<1>3. FoundExists' /\ NothingWritten' /\ WaitsForItsOwn'
  BY <1>1, <1>2 DEF PatientInv, FoundExists, NothingWritten, WaitsForItsOwn
<1>4. ASSUME NEW m \in Machines, NEW r \in Attempts, NEW x \in Attempts, GoodRow(m, r, x)
      PROVE  GoodRow(m, r, x)'
  BY <1>1, <1>4 DEF GoodRow, TakenFrom
<1>5. AnswerIsGood'
  <2>1. SUFFICES ASSUME NEW m \in Machines \ Impatient, waiting[m] # None,
                        pc[waiting[m]] \in {"reply", "done"}
                 PROVE  GoodRow(m, found[waiting[m]], waiting[m])'
    BY <1>1 DEF AnswerIsGood, GoodRow, TakenFrom
  <2>2. waiting[m] \in Attempts /\ found[waiting[m]] \in Attempts
    BY <1>2, <2>1 DEF TokenInv, EnrollTypeOK
  <2>3. GoodRow(m, found[waiting[m]], waiting[m])
    BY <2>1 DEF PatientInv, AnswerIsGood
  <2> QED BY <1>4, <2>2, <2>3, <1>1 DEF GoodRow, TakenFrom
<1>6. SavedIsGood'
  <2>1. \A m \in Machines : identity[m] # None => identity[m].secret \in Attempts
    BY DEF TokenInv, EnrollTypeOK, Identities
  <2> QED BY <1>1, <1>2, <1>4, <2>1 DEF PatientInv, SavedIsGood, GoodRow, TakenFrom
<1> QED BY <1>3, <1>5, <1>6 DEF PatientInv

\* The steps of a machine.
LEMMA PatientMachine ==
  ASSUME TokenInv, OwnerInv, PatientInv, NEW m \in Machines,
         \/ \E a \in Attempts, t \in Tokens, n \in Names : Request(m, a, t, n)
         \/ Abandon(m) \/ Save(m) \/ Refused(m) \/ Upgrade(m)
  PROVE  PatientInv'
<1>1. /\ waiting \in [Machines -> Attempts \cup {None}]
      /\ identity \in [Machines -> Identities \cup {None}]
      /\ found \in [Attempts -> Attempts \cup {None}]
      /\ \A n \in Machines : identity[n] # None => identity[n].device \in Attempts
  BY DEF TokenInv, EnrollTypeOK, Identities
<1>2. rows' = rows /\ found' = found /\ held' = held /\ gone' = gone
  BY DEF Request, Abandon, Save, Refused, Upgrade
<1>9. \A o \in Machines, r \in Attempts, x \in Attempts : GoodRow(o, r, x) => GoodRow(o, r, x)'
  <2>1. [EnrollNext]_vars
    BY DEF EnrollNext
  <2>2. \A b \in Attempts : ask[b] # None => ask'[b] = ask[b]
    BY <2>1, TypeStep DEF TokenInv
  <2>3. \A r \in Attempts : rows[r] # None =>
          rows[r].secret \in Attempts /\ ask[rows[r].secret] # None
    BY DEF TokenInv, EnrollTypeOK, Rows, OwnerInv, RowsFit, RowFits
  <2> QED BY <1>2, <2>2, <2>3 DEF GoodRow, TakenFrom
<1>10. \A o \in Machines : identity[o] # None =>
         identity[o].device \in Attempts /\ identity[o].secret \in Attempts
  BY DEF TokenInv, EnrollTypeOK, Identities
<1>3. ASSUME NEW a \in Attempts, NEW t \in Tokens, NEW n \in Names, Request(m, a, t, n)
      PROVE  PatientInv'
  <2>1. /\ ask[a] = None /\ pc'[a] = "token" /\ ask'[a] # None /\ ask'[a].machine = m
        /\ waiting[m] = None /\ waiting'[m] = a /\ identity' = identity
        /\ \A b \in Attempts \ {a} : ask'[b] = ask[b] /\ pc'[b] = pc[b]
        /\ \A o \in Machines \ {m} : waiting'[o] = waiting[o]
    <3>1. pc[a] = "unsent" /\ ask[a] = None /\ pc'[a] = "token"
      BY <1>3 DEF Request, TokenInv, EnrollTypeOK
    <3>2. ask'[a] = [machine |-> m, mid |-> IF m \in hasId THEN m ELSE None,
                     name |-> n, token |-> t, was |-> tok[t], others |-> ClaimedByOthers(m)]
      BY <1>3 DEF Request, TokenInv, EnrollTypeOK
    <3>3. EnrollTypeOK'
      <4>1. [EnrollNext]_vars
        BY <1>3 DEF EnrollNext
      <4> QED BY <4>1, TypeStep DEF TokenInv
    <3>4. ask'[a] # None
      BY <3>1, <3>3 DEF EnrollTypeOK
    <3> QED BY <1>1, <1>3, <3>1, <3>2, <3>4 DEF Request, TokenInv, EnrollTypeOK
  <2>2. \A o \in Machines : waiting[o] # None =>
          waiting[o] \in Attempts \ {a} /\ ask[waiting[o]] # None /\ ask[waiting[o]].machine = o
    BY <1>1, <2>1 DEF PatientInv, WaitsForItsOwn
  <2>3. FoundExists' /\ NothingWritten'
    BY <1>2, <2>1 DEF PatientInv, FoundExists, NothingWritten
  <2>4. WaitsForItsOwn'
    <3>1. \A o \in Machines : waiting'[o] # None =>
            ask'[waiting'[o]] # None /\ ask'[waiting'[o]].machine = o
      BY <2>1, <2>2
    <3>2. ASSUME NEW b \in Attempts, ask'[b] # None, ask'[b].machine \notin Impatient,
                 pc'[b] \notin {"refused", "done"}
          PROVE  waiting'[ask'[b].machine] = b
      <4>1. CASE b = a
        BY <2>1, <4>1
      <4>2. CASE b # a
        <5>1. waiting[ask[b].machine] = b /\ ask[b].machine \in Machines
          BY <2>1, <3>2, <4>2 DEF PatientInv, WaitsForItsOwn, TokenInv, EnrollTypeOK, Asks
        <5>2. b # None
          BY EnrollAssumption
        <5> QED BY <2>1, <4>2, <5>1, <5>2
      <4> QED BY <4>1, <4>2
    <3> QED BY <3>1, <3>2 DEF WaitsForItsOwn
  <2>5. AnswerIsGood'
    <3>1. SUFFICES ASSUME NEW o \in Machines \ Impatient, waiting'[o] # None,
                          pc'[waiting'[o]] \in {"reply", "done"}
                   PROVE  GoodRow(o, found[waiting[o]], waiting[o])'
      BY DEF AnswerIsGood, GoodRow, TakenFrom
    <3>2. o # m /\ waiting'[o] = waiting[o] /\ waiting[o] \in Attempts
          /\ pc[waiting[o]] \in {"reply", "done"}
      BY <2>1, <2>2, <3>1
    <3>3. GoodRow(o, found[waiting[o]], waiting[o]) /\ found[waiting[o]] \in Attempts
      BY <3>1, <3>2, EnrollAssumption DEF PatientInv, AnswerIsGood, TokenInv, EnrollTypeOK
    <3> QED BY <1>2, <1>9, <3>2, <3>3 DEF GoodRow, TakenFrom
  <2>6. SavedIsGood'
    <3>1. \A o \in Machines : identity[o] # None => identity[o].device # a
      BY <2>1 DEF PatientInv, SavedIsGood
    <3>2. SUFFICES ASSUME NEW o \in Machines, identity[o] # None
                   PROVE  /\ ask'[identity[o].device] # None
                          /\ Kin(ask'[identity[o].device].machine, o)
                          /\ o \notin Impatient
                             /\ (waiting'[o] = None \/ pc'[waiting'[o]] \notin {"reply", "done"})
                             => GoodRow(o, identity[o].device, identity[o].secret)'
      BY <2>1 DEF SavedIsGood, GoodRow, TakenFrom
    <3>3. ask'[identity[o].device] = ask[identity[o].device]
      BY <1>1, <2>1, <3>1, <3>2
    <3>4. CASE o = m
      BY <1>9, <1>10, <2>1, <3>2, <3>3, <3>4 DEF PatientInv, SavedIsGood
    <3>5. CASE o # m
      <4>1. waiting'[o] = waiting[o] /\ (waiting[o] # None => pc'[waiting[o]] = pc[waiting[o]])
        BY <2>1, <2>2, <3>5
      <4> QED BY <1>9, <1>10, <2>1, <3>2, <3>3, <4>1 DEF PatientInv, SavedIsGood, GoodRow, TakenFrom
    <3> QED BY <3>4, <3>5
  <2> QED BY <2>3, <2>4, <2>5, <2>6 DEF PatientInv
<1>4. ASSUME Abandon(m) \/ Refused(m) \/ Save(m)
      PROVE  /\ pc' = pc /\ ask' = ask /\ waiting[m] \in Attempts
             /\ waiting' = [waiting EXCEPT ![m] = None]
             /\ \A o \in Machines \ {m} : waiting'[o] = waiting[o] /\ identity'[o] = identity[o]
             /\ waiting'[m] = None
             /\ m \in Impatient \/ pc[waiting[m]] \in {"refused", "done"}
             /\ FoundExists' /\ NothingWritten' /\ WaitsForItsOwn' /\ AnswerIsGood'
  <2>1. /\ pc' = pc /\ ask' = ask /\ waiting[m] \in Attempts
        /\ waiting' = [waiting EXCEPT ![m] = None]
        /\ \A o \in Machines \ {m} : waiting'[o] = waiting[o] /\ identity'[o] = identity[o]
        /\ waiting'[m] = None
        /\ m \in Impatient \/ pc[waiting[m]] \in {"refused", "done"}
    BY <1>1, <1>4 DEF Abandon, Refused, Save
  <2>2. FoundExists' /\ NothingWritten'
    BY <1>2, <2>1 DEF PatientInv, FoundExists, NothingWritten
  <2>3. WaitsForItsOwn'
    <3>1. \A b \in Attempts : ask[b] # None => ask[b].machine \in Machines
      BY DEF TokenInv, EnrollTypeOK, Asks
    <3> QED BY <2>1, <3>1 DEF PatientInv, WaitsForItsOwn
  <2>4. AnswerIsGood'
    <3>1. SUFFICES ASSUME NEW o \in Machines \ Impatient, waiting'[o] # None,
                          pc[waiting'[o]] \in {"reply", "done"}
                   PROVE  GoodRow(o, found[waiting[o]], waiting[o])'
      BY <2>1 DEF AnswerIsGood, GoodRow, TakenFrom
    <3>2. waiting'[o] = waiting[o] /\ waiting[o] \in Attempts
      BY <1>1, <2>1, <3>1
    <3>3. GoodRow(o, found[waiting[o]], waiting[o]) /\ found[waiting[o]] \in Attempts
      BY <3>1, <3>2 DEF PatientInv, AnswerIsGood, TokenInv, EnrollTypeOK
    <3> QED BY <1>2, <1>9, <3>2, <3>3 DEF GoodRow, TakenFrom
  <2> QED BY <2>1, <2>2, <2>3, <2>4
<1>5. CASE Abandon(m)
  <2>1. m \in Impatient /\ identity' = identity
    BY <1>5 DEF Abandon
  <2>2. SavedIsGood'
    BY <1>9, <1>10, <1>4, <1>5, <2>1 DEF PatientInv, SavedIsGood, GoodRow, TakenFrom
  <2> QED BY <1>4, <1>5, <2>2 DEF PatientInv
<1>6. CASE Refused(m)
  <2>1. pc[waiting[m]] = "refused" /\ identity' = identity
    BY <1>6 DEF Refused
  <2>2. SavedIsGood'
    BY <1>9, <1>10, <1>4, <1>6, <2>1 DEF PatientInv, SavedIsGood, GoodRow, TakenFrom
  <2> QED BY <1>4, <1>6, <2>2 DEF PatientInv
<1>7. CASE Save(m)
  <2>0. PICK a \in Attempts : a = waiting[m]
    BY <1>4, <1>7
  <2>1. /\ a = waiting[m] /\ a # None /\ pc[a] = "done" /\ found[a] \in Attempts
        /\ identity'[m] = [device |-> found[a], secret |-> a]
    BY <2>0, <1>1, <1>4, <1>7, EnrollAssumption DEF Save, TokenInv, EnrollTypeOK
  <2>2. ask[found[a]] # None /\ Kin(ask[found[a]].machine, m)
    BY <2>1, EnrollAssumption DEF PatientInv, WaitsForItsOwn, OwnerInv, FoundIsOwn
  <2>3. identity'[m].device = found[a] /\ identity'[m].secret = a
    BY <2>1
  <2>4. m \notin Impatient => GoodRow(m, found[a], a)
    BY <2>1 DEF PatientInv, AnswerIsGood
  <2>5. SavedIsGood'
    <3>1. SUFFICES ASSUME NEW o \in Machines, identity'[o] # None
                   PROVE  /\ ask[identity'[o].device] # None
                          /\ Kin(ask[identity'[o].device].machine, o)
                          /\ o \notin Impatient
                             /\ (waiting'[o] = None \/ pc[waiting'[o]] \notin {"reply", "done"})
                             => GoodRow(o, identity[o].device, identity[o].secret)'
      BY <1>4, <1>7 DEF SavedIsGood, GoodRow, TakenFrom
    <3>2. CASE o = m
      <4>1. m \notin Impatient => GoodRow(m, found[a], a)'
        BY <1>1, <1>9, <2>1, <2>4, <1>2 DEF GoodRow, TakenFrom
      <4> QED BY <1>2, <1>4, <1>7, <2>2, <2>3, <3>2, <4>1 DEF GoodRow, TakenFrom
    <3>3. CASE o # m
      <4>1. identity'[o] = identity[o] /\ waiting'[o] = waiting[o]
        BY <1>4, <1>7, <3>3
      <4> QED BY <1>9, <1>10, <3>1, <4>1 DEF PatientInv, SavedIsGood, GoodRow, TakenFrom
    <3> QED BY <3>2, <3>3
  <2> QED BY <1>4, <1>7, <2>5 DEF PatientInv
<1>8. CASE Upgrade(m)
  <2>1. UNCHANGED <<pc, ask, waiting, identity>>
    BY <1>8 DEF Upgrade
  <2>2. FoundExists' /\ NothingWritten' /\ WaitsForItsOwn'
    BY <1>2, <2>1 DEF PatientInv, FoundExists, NothingWritten, WaitsForItsOwn
  <2>3. AnswerIsGood' /\ SavedIsGood'
    BY <1>2, <2>1 DEF PatientInv, AnswerIsGood, SavedIsGood, GoodRow, TakenFrom
  <2> QED BY <2>2, <2>3 DEF PatientInv
<1> QED
  BY <1>3, <1>5, <1>6, <1>7, <1>8

\* The steps of redeemToken.
LEMMA PatientRedemption ==
  ASSUME TokenInv, OwnerInv, PatientInv, NEW a \in Attempts, RedeemStep(a)
  PROVE  PatientInv'
<1>1. /\ waiting \in [Machines -> Attempts \cup {None}]
      /\ found \in [Attempts -> Attempts \cup {None}]
      /\ \A n \in Machines : identity[n] # None => identity[n].device \in Attempts
      /\ \A b \in Attempts : held[b] # None => held[b].id \in Attempts
      /\ \A b \in Attempts : ask[b] # None => ask[b].machine \in Machines
  BY DEF TokenInv, EnrollTypeOK, Identities, Holds, Asks
<1>2. UNCHANGED <<ask, waiting, identity, gone>>
  BY DEF RedeemStep, ReadToken, FindByMachine, FindByName, Insert, Update, WriteRow,
         UpdateNothing, Commit, Reply
<1>3. /\ \A b \in Attempts \ {a} : pc'[b] = pc[b] /\ found'[b] = found[b] /\ held'[b] = held[b]
      /\ pc[a] \notin {"refused", "done"} /\ ask[a] # None
      /\ pc[a] = "reply" => pc'[a] = "done" /\ found' = found /\ rows' = rows
      /\ pc'[a] \in {"reply", "done"} => pc[a] = "reply" \/ Commit(a)
  <2>1. CASE ReadToken(a) \/ FindByMachine(a) \/ FindByName(a) \/ UpdateNothing(a)
    BY <2>1 DEF ReadToken, FindByMachine, FindByName, UpdateNothing, TokenInv, EnrollTypeOK
  <2>2. CASE Insert(a) \/ Update(a)
    BY <2>2 DEF Insert, Update, WriteRow, TokenInv, EnrollTypeOK
  <2>3. CASE Commit(a) \/ Reply(a)
    BY <2>3 DEF Commit, Reply, TokenInv, EnrollTypeOK
  <2> QED BY <2>1, <2>2, <2>3 DEF RedeemStep
<1>4. /\ Commit(a) /\ held[a] # None =>
           /\ rows' = [rows EXCEPT ![held[a].id] = held[a].row]
           /\ held[a].row # None /\ held[a].row.secret = a /\ found[a] = held[a].id
           /\ found' = found /\ pc'[a] = "reply"
      /\ Commit(a) /\ held[a] = None => rows' = rows /\ found' = found /\ found[a] \in gone
      /\ ~ Commit(a) => rows' = rows
  <2>1. ASSUME Commit(a), held[a] # None
        PROVE  /\ rows' = [rows EXCEPT ![held[a].id] = held[a].row]
               /\ held[a].row # None /\ held[a].row.secret = a /\ found[a] = held[a].id
               /\ found' = found /\ pc'[a] = "reply"
    BY <2>1, EnrollAssumption DEF Commit, TokenInv, EnrollTypeOK, Holds, HeldIsOwn, OwnerInv,
                                  HeldFits
  <2>2. ASSUME Commit(a), held[a] = None
        PROVE  rows' = rows /\ found' = found /\ found[a] \in gone
    BY <2>2 DEF Commit, PatientInv, NothingWritten
  <2>3. ASSUME ~ Commit(a)
        PROVE  rows' = rows
    BY <2>3 DEF RedeemStep, ReadToken, FindByMachine, FindByName, Insert, Update, WriteRow,
                UpdateNothing, Reply
  <2> QED BY <2>1, <2>2, <2>3
\* A commit touches no row but its own machine's and its kin's.
<1>5. ASSUME NEW r \in Attempts, rows'[r] # rows[r]
      PROVE  /\ Commit(a) /\ held[a] # None /\ r = held[a].id /\ rows'[r] # None
             /\ rows'[r].secret = a
             /\ ask[r] # None /\ Kin(ask[r].machine, ask[a].machine)
  <2>1. Commit(a) /\ held[a] # None /\ r = held[a].id
    BY <1>4, <1>5 DEF TokenInv, EnrollTypeOK
  <2>2. ask[r] # None /\ Kin(ask[r].machine, ask[a].machine)
    BY <1>4, <2>1, EnrollAssumption DEF OwnerInv, FoundIsOwn
  <2> QED BY <1>4, <2>1, <2>2 DEF TokenInv, EnrollTypeOK
\* So what it does to a machine that is not its own is to take the row of an old clone.
<1>11. ASSUME NEW m \in Machines, NEW r \in Attempts, NEW x \in Attempts,
              ask[r] # None, Kin(ask[r].machine, m), ask[a].machine # m,
              GoodRow(m, r, x)
       PROVE  GoodRow(m, r, x)'
  <2>1. CASE rows'[r] = rows[r]
    BY <1>2, <1>11, <2>1 DEF GoodRow, TakenFrom
  <2>2. CASE rows'[r] # rows[r]
    <3>1. rows'[r] # None /\ rows'[r].secret = a /\ Kin(ask[r].machine, ask[a].machine)
      BY <1>5, <2>2
    <3>2. Kin(m, ask[a].machine)
      BY <1>11, <3>1, KinIsEquivalence
    <3>3. OldClone(m)
      BY <1>11, <3>2 DEF Kin
    <3> QED BY <1>2, <1>11, <3>1, <3>3 DEF GoodRow, TakenFrom
  <2> QED BY <2>1, <2>2
<1>6. FoundExists'
  <2>1. ASSUME NEW b \in Attempts \ {a}, found'[b] # None
        PROVE  rows'[found'[b]] # None \/ found'[b] \in gone' \/ held'[b] # None
    BY <1>1, <1>2, <1>3, <1>5, <2>1 DEF PatientInv, FoundExists
  <2>2. ASSUME found'[a] # None
        PROVE  rows'[found'[a]] # None \/ found'[a] \in gone' \/ held'[a] # None
    <3>1. CASE ReadToken(a) \/ UpdateNothing(a) \/ Reply(a)
      BY <1>2, <2>2, <3>1 DEF ReadToken, UpdateNothing, Reply, PatientInv, FoundExists
    <3>2. CASE FindByMachine(a) \/ FindByName(a)
      BY <1>1, <1>2, <2>2, <3>2 DEF FindByMachine, FindByName, WithMid, Adoptable, PatientInv,
                                    FoundExists
    <3>3. CASE Insert(a) \/ Update(a)
      <4>1. PICK r \in Attempts, mid \in Machines \cup {None} : WriteRow(a, r, mid)
        BY <3>3, WritesAreTyped DEF WriteStep, TokenInv
      <4>2. CASE Taken(r, mid)
        BY <1>2, <2>2, <4>1, <4>2 DEF WriteRow, PatientInv, FoundExists
      <4>3. CASE ~ Taken(r, mid)
        <5> DEFINE h == [id |-> r, row |-> [name |-> ask[a].name, mid |-> mid,
                                            secret |-> a, token |-> ask[a].token]]
        <5>1. held'[a] = h
          BY <4>1, <4>3 DEF WriteRow, TokenInv, EnrollTypeOK
        <5>2. h \in Holds
          BY <3>3, WritesAreTyped DEF TokenInv, Asks, Rows, Holds
        <5> QED BY <5>1, <5>2, EnrollAssumption
      <4> QED BY <4>2, <4>3
    <3>4. CASE Commit(a)
      BY <1>1, <1>2, <1>4, <2>2, <3>4 DEF TokenInv, EnrollTypeOK
    <3> QED BY <3>1, <3>2, <3>3, <3>4 DEF RedeemStep
  <2> QED BY <2>1, <2>2 DEF FoundExists
<1>7. NothingWritten'
  <2>1. SUFFICES ASSUME pc'[a] = "commit", held'[a] = None
                 PROVE  found'[a] \in gone
    BY <1>2, <1>3 DEF PatientInv, NothingWritten
  <2>2. CASE UpdateNothing(a)
    BY <2>2 DEF UpdateNothing, PatientInv, FoundExists, TokenInv, EnrollTypeOK
  <2>3. CASE Insert(a) \/ Update(a)
    <3>1. PICK r \in Attempts, mid \in Machines \cup {None} : WriteRow(a, r, mid)
      BY <2>3, WritesAreTyped DEF WriteStep, TokenInv
    <3> DEFINE h == [id |-> r, row |-> [name |-> ask[a].name, mid |-> mid,
                                        secret |-> a, token |-> ask[a].token]]
    <3>2. held'[a] = h
      BY <2>1, <3>1 DEF WriteRow, TokenInv, EnrollTypeOK
    <3>3. h \in Holds
      BY <2>3, WritesAreTyped DEF TokenInv, Asks, Rows, Holds
    <3> QED BY <2>1, <3>2, <3>3, EnrollAssumption
  <2>4. CASE ReadToken(a) \/ FindByMachine(a) \/ FindByName(a) \/ Commit(a) \/ Reply(a)
    BY <2>1, <2>4 DEF ReadToken, FindByMachine, FindByName, Commit, Reply, TokenInv,
                      EnrollTypeOK
  <2> QED BY <2>2, <2>3, <2>4 DEF RedeemStep
<1>8. WaitsForItsOwn'
  BY <1>2, <1>3 DEF PatientInv, WaitsForItsOwn
<1>9. AnswerIsGood'
  <2>1. SUFFICES ASSUME NEW m \in Machines \ Impatient, waiting[m] # None,
                        pc'[waiting[m]] \in {"reply", "done"}
                 PROVE  GoodRow(m, found[waiting[m]], waiting[m])'
    BY <1>2 DEF AnswerIsGood, GoodRow, TakenFrom
  <2> DEFINE b == waiting[m]
  <2>2. /\ b \in Attempts /\ ask[b] # None /\ ask[b].machine = m
        /\ pc[b] \in {"reply", "done"} =>
             found[b] \in Attempts /\ GoodRow(m, found[b], b)
    BY <1>1, <2>1 DEF PatientInv, WaitsForItsOwn, AnswerIsGood, TokenInv, EnrollTypeOK
  <2>3. CASE b = a /\ pc[a] = "reply"
    BY <1>2, <1>3, <2>2, <2>3 DEF GoodRow, TakenFrom
  <2>4. CASE b = a /\ Commit(a)
    BY <1>1, <1>2, <1>4, <2>4 DEF TokenInv, EnrollTypeOK, GoodRow
  <2>5. CASE b # a
    <3>1. /\ pc[b] \in {"reply", "done"} /\ found'[b] = found[b] /\ found[b] \in Attempts
          /\ GoodRow(m, found[b], b)
      BY <1>1, <1>3, <2>1, <2>2, <2>5
    <3>2. ask[found[b]] # None /\ Kin(ask[found[b]].machine, m)
      BY <2>2, <3>1, EnrollAssumption DEF OwnerInv, FoundIsOwn
    <3>3. ask[a].machine # m
      BY <1>3, <2>5 DEF PatientInv, WaitsForItsOwn
    <3>4. GoodRow(m, found[b], b)'
      BY <1>2, <1>11, <2>2, <3>1, <3>2, <3>3 DEF GoodRow, TakenFrom
    <3> QED BY <1>2, <2>2, <3>1, <3>4 DEF GoodRow, TakenFrom
  <2> QED BY <1>3, <2>1, <2>3, <2>4, <2>5
<1>10. SavedIsGood'
  <2>1. SUFFICES ASSUME NEW m \in Machines \ Impatient, identity[m] # None,
                        waiting[m] = None \/ pc'[waiting[m]] \notin {"reply", "done"}
                 PROVE  GoodRow(m, identity[m].device, identity[m].secret)'
    BY <1>2 DEF PatientInv, SavedIsGood, GoodRow, TakenFrom
  <2> DEFINE d == identity[m].device
             x == identity[m].secret
  <2>2. /\ d \in Attempts /\ x \in Attempts
        /\ ask[d] # None /\ Kin(ask[d].machine, m)
    BY <2>1 DEF PatientInv, SavedIsGood, TokenInv, EnrollTypeOK, Identities
  <2>3. waiting[m] = None \/ pc[waiting[m]] \notin {"reply", "done"}
    BY <1>1, <1>3, <2>1
  <2>4. GoodRow(m, d, x)
    BY <2>1, <2>3 DEF PatientInv, SavedIsGood
  <2>5. CASE ask[a].machine = m
    <3>1. waiting[m] = a
      BY <1>3, <2>5 DEF PatientInv, WaitsForItsOwn
    <3>2. pc'[a] \notin {"reply", "done"}
      BY <2>1, <3>1, EnrollAssumption
    <3>3. rows' = rows
      BY <1>4, <3>2 DEF Commit, TokenInv, EnrollTypeOK
    <3> QED BY <1>2, <2>4, <3>3 DEF GoodRow, TakenFrom
  <2>6. CASE ask[a].machine # m
    BY <1>2, <1>11, <2>2, <2>4, <2>6 DEF GoodRow, TakenFrom
  <2> QED BY <2>5, <2>6
<1> QED
  BY <1>6, <1>7, <1>8, <1>9, <1>10 DEF PatientInv

-----------------------------------------------------------------------------
(* A newcomer stays out of the rows others have claimed. *)

\* There are no rows yet.
LEMMA NewcomerStart == EnrollInit => NewcomerInv
BY DEF EnrollInit, NewcomerInv, RowsAreFound, HeldRows, OthersStayClosed

\* The steps that touch neither what the attempts did nor any row, but to delete it.
LEMMA NewcomerElsewhere ==
  ASSUME EnrollTypeOK, NewcomerInv,
         \/ UNCHANGED vars
         \/ \E t \in Tokens : GenerateToken(t) \/ KillToken(t)
         \/ \E r \in Attempts : DeleteDevice(r)
         \/ \E m \in Machines : Abandon(m) \/ Save(m) \/ Refused(m) \/ Upgrade(m)
  PROVE  NewcomerInv'
<1>1. /\ UNCHANGED <<pc, ask, found, held>>
      /\ \A r \in Attempts : rows'[r] \in {rows[r], None}
  BY DEF vars, GenerateToken, KillToken, DeleteDevice, Abandon, Save, Refused, Upgrade,
         EnrollTypeOK
<1>2. \A a \in Attempts : /\ held[a] # None => held[a].id \in Attempts
                          /\ ask[a] # None => ask[a].others \subseteq Attempts
  BY DEF EnrollTypeOK, Holds, Asks
<1>3. RowsAreFound'
  BY <1>1 DEF NewcomerInv, RowsAreFound, Inserted
<1>4. HeldRows'
  BY <1>1, <1>2 DEF NewcomerInv, HeldRows, Inserted
<1>5. OthersStayClosed'
  BY <1>1, <1>2 DEF NewcomerInv, OthersStayClosed, Inserted, ClosedTo
<1> QED BY <1>3, <1>4, <1>5 DEF NewcomerInv

\* When a patient machine asks, no transaction of its own runs that could give a claimed row
\* its id.
LEMMA NewcomerRequest ==
  ASSUME TokenInv, OwnerInv, PatientInv, NewcomerInv,
         \E m \in Machines, a \in Attempts, t \in Tokens, n \in Names : Request(m, a, t, n)
  PROVE  NewcomerInv'
<1>1. PICK m \in Machines, a \in Attempts, t \in Tokens, n \in Names : Request(m, a, t, n)
  OBVIOUS
<1>2. /\ ask[a] = None /\ pc[a] = "unsent" /\ pc'[a] = "token" /\ waiting[m] = None
      /\ ask'[a] = [machine |-> m, mid |-> IF m \in hasId THEN m ELSE None,
                    name |-> n, token |-> t, was |-> tok[t], others |-> ClaimedByOthers(m)]
      /\ rows' = rows /\ found' = found /\ held' = held
      /\ \A b \in Attempts \ {a} : ask'[b] = ask[b] /\ pc'[b] = pc[b]
  BY <1>1 DEF Request, TokenInv, EnrollTypeOK
<1>3. /\ \A b \in Attempts : held[b] # None =>
           b # a /\ held[b].id \in Attempts /\ ask[b] # None /\ pc[b] = "commit"
      /\ \A r \in Attempts : Inserted(r) => Inserted(r)' /\ r # a
      /\ \A b \in Attempts : ask[b] # None => ask[b].others \subseteq Attempts
  BY <1>2 DEF TokenInv, EnrollTypeOK, Holds, Asks, Inserted
<1>4. RowsAreFound'
  BY <1>2, <1>3 DEF NewcomerInv, RowsAreFound
<1>5. HeldRows'
  BY <1>2, <1>3 DEF NewcomerInv, HeldRows
<1>6. ASSUME NEW r \in ClaimedByOthers(m)
      PROVE  /\ r \in Attempts /\ Inserted(r)' /\ found[a] # r
             /\ m \notin Impatient => ClosedTo(m, r)
  <2>1. r \in Attempts /\ rows[r] # None /\ rows[r].mid \notin {None, m}
    BY <1>6 DEF ClaimedByOthers
  <2>2. Inserted(r)' /\ found[a] # r
    BY <1>2, <1>3, <2>1, EnrollAssumption DEF NewcomerInv, RowsAreFound, OwnerInv, FoundIsOwn
  <2>3. ASSUME m \notin Impatient, NEW b \in Attempts, held[b] # None, held[b].id = r
        PROVE  held[b].row.mid \notin {None, m}
    <3>1. CASE ask[b].mid = None
      BY <2>1, <2>3, <3>1 DEF NewcomerInv, HeldRows
    <3>2. CASE ask[b].mid # None
      <4>1. /\ ask[b] # None /\ pc[b] = "commit" /\ held[b].row.secret = b
            /\ RowFits(held[b].row) /\ ask[b].mid = ask[b].machine
        BY <1>3, <2>3, <3>2 DEF TokenInv, HeldIsOwn, AsksAreOwn, OwnerInv, HeldFits
      <4>2. held[b].row.mid = ask[b].machine
        BY <3>2, <4>1 DEF RowFits
      <4>3. ask[b].machine # m
        BY <1>2, <2>3, <4>1, EnrollAssumption DEF PatientInv, WaitsForItsOwn
      <4> QED BY <3>2, <4>1, <4>2, <4>3
    <3> QED BY <3>1, <3>2
  <2> QED BY <2>1, <2>2, <2>3 DEF ClosedTo
<1>7. OthersStayClosed'
  <2>1. ASSUME NEW r \in ask'[a].others
        PROVE  /\ Inserted(r)' /\ found[a] # r
               /\ ask'[a].machine \notin Impatient => ClosedTo(ask'[a].machine, r)
    BY <1>2, <1>6
  <2>2. ASSUME NEW b \in Attempts \ {a}, ask[b] # None, NEW r \in ask[b].others
        PROVE  /\ Inserted(r)'
               /\ ask[b].mid # None /\ ask[b].machine \notin Impatient =>
                    /\ found[b] # r
                    /\ pc[b] \in {"token", "bymid", "byname"} => ClosedTo(ask[b].machine, r)
    BY <1>3, <2>2 DEF NewcomerInv, OthersStayClosed
  <2> QED BY <1>2, <2>1, <2>2 DEF OthersStayClosed, ClosedTo
<1> QED BY <1>4, <1>5, <1>7 DEF NewcomerInv

\* A write that is not refused: which row it holds, and that nobody else does.
HoldsNow(a, r, mid) ==
  /\ held[a] = None /\ held'[a] # None
  /\ held'[a].id = r /\ held'[a].row.mid = mid
  /\ \A b \in Attempts \ {a} : held'[b] = held[b] /\ (held[b] # None => held[b].id # r)
  /\ found' = [found EXCEPT ![a] = r]

\* What an INSERT or UPDATE that is not refused does.
LEMMA WritesHold ==
  ASSUME EnrollTypeOK, NEW a \in Attempts, Insert(a) \/ Update(a), pc'[a] # "refused"
  PROVE  /\ rows' = rows /\ ask' = ask /\ pc[a] = "write" /\ pc'[a] = "commit"
         /\ \A b \in Attempts \ {a} : pc'[b] = pc[b]
         /\ \/ found[a] = None /\ HoldsNow(a, a, ask[a].mid)
            \/ /\ found[a] \in Attempts /\ rows[found[a]] # None
               /\ HoldsNow(a, found[a], IF ask[a].mid # None THEN ask[a].mid ELSE rows[found[a]].mid)
<1>1. ASSUME NEW r \in Attempts, NEW mid \in Machines \cup {None}, WriteRow(a, r, mid)
      PROVE  HoldsNow(a, r, mid)
  <2> DEFINE row == [name |-> ask[a].name, mid |-> mid, secret |-> a, token |-> ask[a].token]
             h   == [id |-> r, row |-> row]
  <2>1. pc[a] = "write" /\ held[a] = None /\ ask[a] \in Asks
    BY WritesAreTyped
  <2>2. h \in Holds
    BY <2>1 DEF Asks, Rows, Holds
  <2>3. h # None
    BY <2>2, EnrollAssumption
  <2>4. held' = [held EXCEPT ![a] = h] /\ found' = [found EXCEPT ![a] = r]
    BY <1>1, EnrollAssumption DEF WriteRow, EnrollTypeOK
  <2>5. \A b \in Attempts : held[b] # None => held[b].id # r
    BY <1>1 DEF WriteRow, MustWait, Open, EnrollTypeOK
  <2> QED BY <2>1, <2>3, <2>4, <2>5 DEF HoldsNow, EnrollTypeOK
<1>2. ask[a] \in Asks
  BY WritesAreTyped
<1>3. /\ rows' = rows /\ ask' = ask /\ pc[a] = "write" /\ pc'[a] = "commit"
      /\ \A b \in Attempts \ {a} : pc'[b] = pc[b]
  BY DEF Insert, Update, WriteRow, EnrollTypeOK
<1>4. CASE Insert(a)
  BY <1>1, <1>2, <1>3, <1>4 DEF Insert, Asks
<1>5. CASE Update(a)
  <2>1. found[a] \in Attempts /\ rows[found[a]] \in Rows /\ rows[found[a]] # None
    BY <1>5 DEF Update, EnrollTypeOK
  <2>2. (IF ask[a].mid # None THEN ask[a].mid ELSE rows[found[a]].mid) \in Machines \cup {None}
    BY <1>2, <2>1 DEF Asks, Rows
  <2> QED BY <1>1, <1>3, <1>5, <2>1, <2>2 DEF Update
<1> QED BY <1>4, <1>5

\* The steps of redeemToken.
LEMMA NewcomerRedemption ==
  ASSUME TokenInv, OwnerInv, PatientInv, NewcomerInv, NEW a \in Attempts, RedeemStep(a)
  PROVE  NewcomerInv'
<1>1. /\ ask' = ask /\ ask[a] # None
      /\ \A b \in Attempts \ {a} : pc'[b] = pc[b] /\ found'[b] = found[b]
      /\ \A r \in Attempts : Inserted(r) => Inserted(r)'
      /\ pc'[a] \in {"token", "bymid", "byname"} => pc[a] \in {"token", "bymid", "byname"}
  <2>1. CASE ReadToken(a) \/ FindByMachine(a) \/ FindByName(a) \/ UpdateNothing(a)
    BY <2>1 DEF ReadToken, FindByMachine, FindByName, UpdateNothing, TokenInv, EnrollTypeOK,
                Inserted
  <2>2. CASE Insert(a) \/ Update(a)
    BY <2>2 DEF Insert, Update, WriteRow, TokenInv, EnrollTypeOK, Inserted
  <2>3. CASE Commit(a) \/ Reply(a)
    BY <2>3 DEF Commit, Reply, TokenInv, EnrollTypeOK, Inserted
  <2> QED BY <2>1, <2>2, <2>3 DEF RedeemStep
<1>2. /\ EnrollTypeOK
      /\ \A b \in Attempts : ask[b] # None => ask[b].others \subseteq Attempts
      /\ \A b \in Attempts : held[b] # None => held[b].id \in Attempts
      /\ \A r \in Attempts : rows[r] # None => rows[r].secret \in Attempts
  BY DEF TokenInv, EnrollTypeOK, Asks, Holds, Rows
<1>3. \A b \in Attempts, r \in Attempts : ask[b] # None /\ r \in ask[b].others => Inserted(r)
  BY DEF NewcomerInv, OthersStayClosed
\* A lookup finds no row that is closed to the machine.
<1>4. ASSUME FindByMachine(a) \/ FindByName(a), ask[a].mid # None, ask[a].machine \notin Impatient,
             NEW r \in ask[a].others
      PROVE  found'[a] # r
  <2>1. /\ r \in Attempts /\ found[a] # r /\ ClosedTo(ask[a].machine, r)
        /\ ask[a].mid = ask[a].machine
    BY <1>1, <1>2, <1>4 DEF FindByMachine, FindByName, NewcomerInv, OthersStayClosed, TokenInv,
                            AsksAreOwn
  <2>2. r \notin WithMid(ask[a].mid) \cup Adoptable(a)
    BY <1>4, <2>1 DEF ClosedTo, WithMid, Adoptable
  <2>3. found' = found \/ \E q \in WithMid(ask[a].mid) \cup Adoptable(a) :
                            found' = [found EXCEPT ![a] = q]
    BY <1>4 DEF FindByMachine, FindByName
  <2> QED BY <1>2, <2>1, <2>2, <2>3 DEF EnrollTypeOK
\* The steps that write nothing.
<1>5. ASSUME rows' = rows, held' = held,
             found'[a] = found[a] \/ FindByMachine(a) \/ FindByName(a)
      PROVE  NewcomerInv'
  <2>1. RowsAreFound'
    <3>1. ASSUME NEW r \in Attempts, rows[r] # None
          PROVE  found'[rows[r].secret] = r
      <4>1. found[rows[r].secret] = r /\ pc[rows[r].secret] \in {"reply", "done"}
        BY <3>1 DEF NewcomerInv, RowsAreFound, TokenInv, RowsAreAnswered
      <4>2. rows[r].secret # a \/ found'[a] = found[a]
        BY <1>5, <4>1 DEF FindByMachine, FindByName
      <4> QED BY <1>1, <1>2, <3>1, <4>1, <4>2
    <3> QED BY <1>1, <1>5, <3>1 DEF NewcomerInv, RowsAreFound
  <2>2. HeldRows'
    BY <1>1, <1>2, <1>5 DEF NewcomerInv, HeldRows
  <2>3. OthersStayClosed'
    BY <1>1, <1>2, <1>4, <1>5 DEF NewcomerInv, OthersStayClosed, ClosedTo
  <2> QED BY <2>1, <2>2, <2>3 DEF NewcomerInv
<1>6. CASE ReadToken(a) \/ UpdateNothing(a) \/ Reply(a)
  BY <1>5, <1>6 DEF ReadToken, UpdateNothing, Reply
<1>7. CASE FindByMachine(a) \/ FindByName(a)
  BY <1>5, <1>7 DEF FindByMachine, FindByName
<1>8. CASE (Insert(a) \/ Update(a)) /\ pc'[a] = "refused"
  BY <1>2, <1>5, <1>8 DEF Insert, Update, WriteRow, EnrollTypeOK
<1>9. CASE (Insert(a) \/ Update(a)) /\ pc'[a] # "refused"
  <2> DEFINE r   == IF found[a] = None THEN a ELSE found[a]
             mid == IF ask[a].mid # None THEN ask[a].mid ELSE rows[r].mid
  <2>1. /\ rows' = rows /\ pc[a] = "write" /\ pc'[a] = "commit" /\ ~ Inserted(a)
        /\ held[a] = None /\ held'[a] # None /\ held'[a].id = r /\ r \in Attempts
        /\ \A b \in Attempts \ {a} : held'[b] = held[b] /\ (held[b] # None => held[b].id # r)
        /\ found'[a] = r
        /\ r = a \/ rows[r] # None
        /\ ask[a].mid # None \/ rows[r] # None => held'[a].row.mid = mid
    <3>1. ~ Inserted(a)
      BY <1>9 DEF Insert, Update, Inserted
    <3>2. rows[a] = None
      BY <3>1 DEF NewcomerInv, RowsAreFound
    <3> QED BY <1>2, <1>9, <3>1, <3>2, WritesHold, EnrollAssumption DEF HoldsNow, EnrollTypeOK
  <2>2. RowsAreFound'
    <3>1. \A q \in Attempts : rows[q] # None => rows[q].secret # a
      BY <2>1 DEF TokenInv, RowsAreAnswered
    <3> QED BY <1>1, <1>2, <2>1, <3>1 DEF NewcomerInv, RowsAreFound
  <2>3. HeldRows'
    <3>1. /\ held'[a].id = a \/ Inserted(held[a].id)'
          /\ \A b \in Attempts \ {a} : held'[b] # None => held'[b].id # held'[a].id
          /\ ask'[a].mid = None /\ rows'[held'[a].id] # None =>
               held'[a].row.mid = rows'[held'[a].id].mid
      BY <1>1, <2>1 DEF NewcomerInv, RowsAreFound
    <3>2. ASSUME NEW b \in Attempts \ {a}, held'[b] # None
          PROVE  /\ held'[b].id = b \/ Inserted(held[b].id)'
                 /\ \A c \in Attempts \ {b} : held'[c] # None => held'[c].id # held'[b].id
                 /\ ask'[b].mid = None /\ rows'[held'[b].id] # None =>
                      held'[b].row.mid = rows'[held'[b].id].mid
      BY <1>1, <1>2, <2>1, <3>2 DEF NewcomerInv, HeldRows
    <3> QED BY <3>1, <3>2 DEF HeldRows
  <2>4. OthersStayClosed'
    <3>1. SUFFICES ASSUME NEW b \in Attempts, ask[b] # None, NEW o \in ask[b].others
                   PROVE  /\ Inserted(o)'
                          /\ ask[b].mid # None /\ ask[b].machine \notin Impatient =>
                               /\ found'[b] # o
                               /\ pc'[b] \in {"token", "bymid", "byname"} =>
                                    ClosedTo(ask[b].machine, o)'
      BY <1>1 DEF OthersStayClosed, ClosedTo
    <3>2. o \in Attempts /\ Inserted(o) /\ o # a
      BY <1>2, <1>3, <2>1, <3>1
    <3>3. SUFFICES ASSUME ask[b].mid # None, ask[b].machine \notin Impatient
                   PROVE  /\ found'[b] # o
                          /\ pc'[b] \in {"token", "bymid", "byname"} =>
                               ClosedTo(ask[b].machine, o)'
      BY <1>1, <3>2
    <3>4. /\ found[b] # o
          /\ pc[b] \in {"token", "bymid", "byname"} => ClosedTo(ask[b].machine, o)
      BY <3>1, <3>3 DEF NewcomerInv, OthersStayClosed
    <3>5. found'[b] # o
      BY <1>1, <2>1, <3>2, <3>4
    <3>6. ASSUME pc'[b] \in {"token", "bymid", "byname"}, held'[a].id = o
          PROVE  held'[a].row.mid \notin {None, ask[b].machine}
      <4>1. b # a /\ pc[b] \in {"token", "bymid", "byname"} /\ r = o /\ rows[o] # None
        BY <1>1, <2>1, <3>2, <3>6
      <4>2. rows[o].mid \notin {None, ask[b].machine} /\ held'[a].row.mid = mid
        BY <2>1, <3>4, <4>1 DEF ClosedTo
      <4>3. waiting[ask[b].machine] = b
        BY <3>1, <3>3, <4>1 DEF PatientInv, WaitsForItsOwn
      <4>4. ask[a].machine # ask[b].machine
        BY <1>1, <2>1, <3>3, <4>1, <4>3 DEF PatientInv, WaitsForItsOwn
      <4>5. ask[a].mid \in {None, ask[a].machine}
        BY <1>1 DEF TokenInv, AsksAreOwn
      <4> QED BY <4>1, <4>2, <4>4, <4>5
    <3> QED BY <1>1, <2>1, <3>4, <3>5, <3>6 DEF ClosedTo
  <2> QED BY <2>2, <2>3, <2>4 DEF NewcomerInv
<1>10. CASE Commit(a) /\ held[a] = None
  BY <1>2, <1>5, <1>10 DEF Commit, EnrollTypeOK
<1>11. CASE Commit(a) /\ held[a] # None
  <2> DEFINE i   == held[a].id
             row == held[a].row
  <2>1. /\ i \in Attempts /\ rows'[i] = row /\ held'[a] = None /\ found' = found
        /\ pc[a] = "commit" /\ pc'[a] = "reply"
        /\ \A q \in Attempts \ {i} : rows'[q] = rows[q]
        /\ \A b \in Attempts \ {a} : held'[b] = held[b]
    BY <1>2, <1>11 DEF Commit, EnrollTypeOK
  <2>2. /\ row.secret = a /\ found[a] = i
        /\ i = a \/ Inserted(i)
        /\ \A b \in Attempts \ {a} : held[b] # None => held[b].id # i
    BY <1>11 DEF TokenInv, HeldIsOwn, OwnerInv, HeldFits, NewcomerInv, HeldRows
  <2>3. RowsAreFound'
    BY <1>1, <2>1, <2>2 DEF NewcomerInv, RowsAreFound, Inserted
  <2>4. HeldRows'
    BY <1>1, <1>2, <2>1, <2>2 DEF NewcomerInv, HeldRows
  <2>5. OthersStayClosed'
    BY <1>1, <1>2, <1>11, <2>1, <2>2 DEF NewcomerInv, OthersStayClosed, ClosedTo
  <2> QED BY <2>3, <2>4, <2>5 DEF NewcomerInv
<1> QED
  BY <1>6, <1>7, <1>8, <1>9, <1>10, <1>11 DEF RedeemStep

-----------------------------------------------------------------------------
(* The theorems. *)

\* The types of Enrollment, and what an attempt carries, whatever the host names are.
THEOREM EnrollTypeCorrect == EnrollSpec => []EnrollTypeOK
<1>1. TokenInv /\ [EnrollNext]_vars => TokenInv'
  BY TokenStep
<1>2. TokenInv => EnrollTypeOK
  BY DEF TokenInv
<1> QED BY TokenStart, <1>1, <1>2, PTL DEF EnrollSpec

\* No assumption on the host names: redeemToken reads the token before it does anything else
\* (handlers.go:490-511), and a dead token stays dead.
THEOREM DeadTokensEnrollNothingHolds == EnrollSpec => []DeadTokensEnrollNothing
<1>1. TokenInv /\ [EnrollNext]_vars => TokenInv'
  BY TokenStep
<1>2. TokenInv => DeadTokensEnrollNothing
  BY DEF TokenInv, LateIsStuck, RowsAreAnswered, DeadTokensEnrollNothing
<1> QED BY TokenStart, <1>1, <1>2, PTL DEF EnrollSpec

\* The inductive invariant.
THEOREM EnrollInvariant == EnrollSpec => []EnrollInv
<1>1. EnrollInit => EnrollInv
  BY TokenStart, OwnerStart, PatientStart, NewcomerStart DEF EnrollInv
<1>2. EnrollInv /\ [EnrollNext]_vars => EnrollInv'
  <2>1. SUFFICES ASSUME EnrollInv, [EnrollNext]_vars
                 PROVE  TokenInv' /\ OwnerInv' /\ PatientInv' /\ NewcomerInv'
    BY DEF EnrollInv
  <2>2. TokenInv' /\ OwnerInv'
    BY <2>1, TokenStep, OwnerStep DEF EnrollInv
  <2>3. PatientInv'
    BY <2>1, PatientAdministration, PatientMachine, PatientRedemption DEF EnrollInv, EnrollNext
  <2>4. NewcomerInv'
    <3>1. TokenInv /\ OwnerInv /\ PatientInv /\ NewcomerInv /\ EnrollTypeOK
      BY <2>1 DEF EnrollInv, TokenInv
    <3>2. CASE \E m \in Machines, a \in Attempts, t \in Tokens, n \in Names : Request(m, a, t, n)
      BY <3>1, <3>2, NewcomerRequest
    <3>3. CASE \E a \in Attempts : RedeemStep(a)
      BY <3>1, <3>3, NewcomerRedemption
    <3>4. CASE \/ UNCHANGED vars
               \/ \E t \in Tokens : GenerateToken(t) \/ KillToken(t)
               \/ \E r \in Attempts : DeleteDevice(r)
               \/ \E m \in Machines : Abandon(m) \/ Save(m) \/ Refused(m) \/ Upgrade(m)
      BY <3>1, <3>4, NewcomerElsewhere
    <3> QED BY <2>1, <3>2, <3>3, <3>4 DEF EnrollNext
  <2> QED BY <2>2, <2>3, <2>4
<1> QED BY <1>1, <1>2, PTL DEF EnrollSpec

\* Machines that enroll at the same time never share a row, nor a machine id, and only an old
\* clone that sends no id gets into a claimed row.
THEOREM MachinesKeepApartHolds == EnrollSpec => []MachinesKeepApart
<1>1. ASSUME EnrollInv, NEW r \in Attempts, rows[r] # None, rows[r].mid # None
      PROVE  /\ \/ ask[rows[r].secret].machine = rows[r].mid
                \/ OldClone(rows[r].mid) /\ ask[rows[r].secret].mid = None
             /\ \A q \in Attempts \ {r} : rows[q] = None \/ rows[q].mid # rows[r].mid
  <2> DEFINE x == ask[rows[r].secret]
  <2>1. /\ rows[r].secret \in Attempts /\ x # None
        /\ Kin(rows[r].mid, x.machine) /\ (x.mid # None => rows[r].mid = x.mid)
    BY <1>1 DEF EnrollInv, TokenInv, EnrollTypeOK, Rows, OwnerInv, RowsFit, RowFits, Owner
  <2>2. x.mid \in {None, x.machine}
    BY <1>1, <2>1 DEF EnrollInv, TokenInv, AsksAreOwn
  <2>3. \A q \in Attempts \ {r} : rows[q] = None \/ rows[q].mid # rows[r].mid
    BY <1>1 DEF EnrollInv, OwnerInv, MidsDiffer
  <2> QED BY <2>1, <2>2, <2>3 DEF Kin
<1>2. EnrollInv => MachinesKeepApart
  BY <1>1 DEF MachinesKeepApart
<1> QED BY <1>2, EnrollInvariant, PTL

\* Whatever is written, taken over or deleted around it, a patient machine that sends its id
\* gets no row that another machine had claimed when it asked.
THEOREM NewcomersStayOutHolds == EnrollSpec => []NewcomersStayOut
<1>1. ASSUME EnrollInv, NEW r \in Attempts, rows[r] # None,
             ask[rows[r].secret].mid # None, ask[rows[r].secret].machine \notin Impatient
      PROVE  r \notin ask[rows[r].secret].others
  <2>1. rows[r].secret \in Attempts /\ ask[rows[r].secret] # None /\ found[rows[r].secret] = r
    BY <1>1 DEF EnrollInv, TokenInv, EnrollTypeOK, Rows, OwnerInv, RowsFit, RowFits,
                NewcomerInv, RowsAreFound
  <2> QED BY <1>1, <2>1 DEF EnrollInv, NewcomerInv, OthersStayClosed
<1>2. EnrollInv => NewcomersStayOut
  BY <1>1 DEF NewcomersStayOut
<1> QED BY <1>2, EnrollInvariant, PTL

\* Whoever else enrolls, retries or is deleted, a machine that waits for its answers is let
\* in with the identity it saved, unless an old clone took its row.
THEOREM PatientAgentIsLetInHolds == EnrollSpec => []PatientAgentIsLetIn
<1>1. EnrollInv => PatientAgentIsLetIn
  BY DEF EnrollInv, PatientInv, SavedIsGood, GoodRow, TakenFrom, LetsIn, PatientAgentIsLetIn,
         SavedIdentityWorks, TakenOver
<1> QED BY <1>1, EnrollInvariant, PTL
=============================================================================
