----------------------------- MODULE Enrollment -----------------------------
(***************************************************************************)
(* Enrollment: an agent redeems an invite link's token and gets a device   *)
(* row and a secret of its own (handlers.go).  redeemToken runs one        *)
(* transaction of up to four statements at Postgres' default isolation,    *)
(* Read Committed: each SELECT sees the rows committed when it runs, and a *)
(* write waits for the transaction that holds its row, or its machine id   *)
(* in the partial unique index of migration 6.  The HTTP client gives up   *)
(* after 30 s and tries again (main.go, enroll.go); the transaction does   *)
(* not know and runs on.                                                   *)
(*                                                                         *)
(* An attempt is one POST.  The secret it mints is named after it, and so  *)
(* is the device row it may insert, for both are fresh random values.      *)
(***************************************************************************)
EXTENDS Naturals, FiniteSets

CONSTANTS
  Machines,    \* computers and phones that run the agent; a machine's id is named after it
  OldAgents,   \* machines whose agent predates machine ids, until it is upgraded
  Names,       \* host names
  HostNames,   \* the host names each machine reports; clones share theirs
  Tokens,      \* the invite links' tokens
  Attempts,    \* the POSTs made, which bound the retries
  Impatient,   \* machines whose client may give up before the answer is stored
  MayDelete,   \* whether an administrator may delete devices
  None

VARIABLES
  tok,       \* each token's row: "unminted", "live", or "dead" (revoked or expired)
  rows,      \* the committed devices table
  pc,        \* where each attempt is in redeemToken
  ask,       \* the body each attempt carries, and what it met when it was sent
  found,     \* the device id its lookup left in deviceID
  held,      \* the uncommitted write of its transaction, [id, row]
  waiting,   \* the attempt each machine waits for
  identity,  \* the identity file on each machine
  hasId,     \* the machines that send a machine id
  gone       \* ids of devices that were deleted

vars == <<tok, rows, pc, ask, found, held, waiting, identity, hasId, gone>>

Rows == [name : Names, mid : Machines \cup {None}, secret : Attempts, token : Tokens]
Asks == [machine : Machines, mid : Machines \cup {None}, name : Names,
         token : Tokens, was : {"live", "dead"}, others : SUBSET Attempts]
Holds == [id : Attempts, row : Rows]
Identities == [device : Attempts, secret : Attempts]
Stages == {"unsent", "token", "bymid", "byname", "write", "commit", "reply", "done", "refused"}

ASSUME EnrollAssumption ==
  /\ OldAgents \subseteq Machines
  /\ HostNames \in [Machines -> SUBSET Names]
  /\ None \notin Machines \cup Attempts \cup Rows \cup Asks \cup Holds \cup Identities
  /\ Impatient \subseteq Machines
  /\ MayDelete \in BOOLEAN

EnrollTypeOK ==
  /\ tok \in [Tokens -> {"unminted", "live", "dead"}]
  /\ rows \in [Attempts -> Rows \cup {None}]
  /\ pc \in [Attempts -> Stages]
  /\ ask \in [Attempts -> Asks \cup {None}]
  /\ found \in [Attempts -> Attempts \cup {None}]
  /\ held \in [Attempts -> Holds \cup {None}]
  /\ \A a \in Attempts : /\ ask[a] = None <=> pc[a] = "unsent"
                         /\ held[a] # None => pc[a] = "commit"
                         /\ pc[a] \in {"commit", "reply", "done"} => found[a] # None
  /\ waiting \in [Machines -> Attempts \cup {None}]
  /\ identity \in [Machines -> Identities \cup {None}]
  /\ hasId \subseteq Machines /\ gone \subseteq Attempts

EnrollInit ==
  /\ tok = [t \in Tokens |-> "unminted"]
  /\ rows = [a \in Attempts |-> None]
  /\ pc = [a \in Attempts |-> "unsent"]
  /\ ask = [a \in Attempts |-> None]
  /\ found = [a \in Attempts |-> None]
  /\ held = [a \in Attempts |-> None]
  /\ waiting = [m \in Machines |-> None]
  /\ identity = [m \in Machines |-> None]
  /\ hasId = Machines \ OldAgents
  /\ gone = {}

-----------------------------------------------------------------------------
(* The administrators' side. *)

GenerateToken(t) ==
  /\ tok[t] = "unminted"
  /\ tok' = [tok EXCEPT ![t] = "live"]
  /\ UNCHANGED <<rows, pc, ask, found, held, waiting, identity, hasId, gone>>

\* RevokeEnrollmentToken, or the token's lifetime running out.
KillToken(t) ==
  /\ tok[t] = "live"
  /\ tok' = [tok EXCEPT ![t] = "dead"]
  /\ UNCHANGED <<rows, pc, ask, found, held, waiting, identity, hasId, gone>>

\* DeleteDevice: one statement, which waits for a transaction that holds the row.
DeleteDevice(r) ==
  /\ MayDelete
  /\ rows[r] # None
  /\ \A a \in Attempts : held[a] # None => held[a].id # r
  /\ rows' = [rows EXCEPT ![r] = None]
  /\ gone' = gone \cup {r}
  /\ UNCHANGED <<tok, pc, ask, found, held, waiting, identity, hasId>>

-----------------------------------------------------------------------------
(* The machines' side. *)

\* The rows that a machine id other than m's has claimed.
ClaimedByOthers(m) == {r \in Attempts : rows[r] # None /\ rows[r].mid \notin {None, m}}

\* Enroll posts the token with the host name and, when it has one, the machine id.  was and
\* others are the history the properties read: the token's and the others' rows' state then.
Request(m, a, t, n) ==
  /\ waiting[m] = None
  /\ n \in HostNames[m]
  /\ pc[a] = "unsent"
  /\ tok[t] # "unminted"
  /\ pc' = [pc EXCEPT ![a] = "token"]
  /\ ask' = [ask EXCEPT ![a] = [machine |-> m, mid |-> IF m \in hasId THEN m ELSE None,
                                name |-> n, token |-> t, was |-> tok[t],
                                others |-> ClaimedByOthers(m)]]
  /\ waiting' = [waiting EXCEPT ![m] = a]
  /\ UNCHANGED <<tok, rows, found, held, identity, hasId, gone>>

\* The client's 30 s pass, the answer is lost, or the identity file cannot be written.
Abandon(m) ==
  /\ m \in Impatient
  /\ waiting[m] # None
  /\ pc[waiting[m]] # "refused"
  /\ waiting' = [waiting EXCEPT ![m] = None]
  /\ UNCHANGED <<tok, rows, pc, ask, found, held, identity, hasId, gone>>

\* The answer arrives: config.Save replaces the identity file.
Save(m) ==
  /\ waiting[m] # None
  /\ pc[waiting[m]] = "done"
  /\ identity' = [identity EXCEPT ![m] = [device |-> found[waiting[m]], secret |-> waiting[m]]]
  /\ waiting' = [waiting EXCEPT ![m] = None]
  /\ UNCHANGED <<tok, rows, pc, ask, found, held, hasId, gone>>

Refused(m) ==
  /\ waiting[m] # None
  /\ pc[waiting[m]] = "refused"
  /\ waiting' = [waiting EXCEPT ![m] = None]
  /\ UNCHANGED <<tok, rows, pc, ask, found, held, identity, hasId, gone>>

\* An agent that sends a machine id is installed over one that did not.
Upgrade(m) ==
  /\ m \notin hasId
  /\ waiting[m] = None
  /\ hasId' = hasId \cup {m}
  /\ UNCHANGED <<tok, rows, pc, ask, found, held, waiting, identity, gone>>

-----------------------------------------------------------------------------
(* redeemToken, statement by statement. *)

\* The token is looked up by its hash alone.
ReadToken_Any(a) ==
  /\ pc[a] = "token"
  /\ pc' = [pc EXCEPT ![a] = IF ask[a].mid # None THEN "bymid" ELSE "byname"]
  /\ UNCHANGED <<tok, rows, ask, found, held, waiting, identity, hasId, gone>>

\* The token is read, and refused unless it is neither revoked nor expired.
ReadToken(a) ==
  /\ pc[a] = "token"
  /\ pc' = [pc EXCEPT ![a] = IF tok[ask[a].token] # "live" THEN "refused"
                          ELSE IF ask[a].mid # None THEN "bymid" ELSE "byname"]
  /\ UNCHANGED <<tok, rows, ask, found, held, waiting, identity, hasId, gone>>

WithMid(mid) == {r \in Attempts : rows[r] # None /\ rows[r].mid = mid}

FindByMachine(a) ==
  /\ pc[a] = "bymid"
  /\ IF WithMid(ask[a].mid) = {}
     THEN /\ pc' = [pc EXCEPT ![a] = "byname"]
          /\ UNCHANGED found
     ELSE /\ pc' = [pc EXCEPT ![a] = "write"]
          /\ \E r \in WithMid(ask[a].mid) : found' = [found EXCEPT ![a] = r]
  /\ UNCHANGED <<tok, rows, ask, held, waiting, identity, hasId, gone>>

\* The lookup by name without "AND machine_id IS NULL".
Adoptable_Any(a) == {r \in Attempts : rows[r] # None /\ rows[r].name = ask[a].name}

\* A machine that sends an id adopts by name only a row that has claimed none.
Adoptable(a) ==
  {r \in Attempts : /\ rows[r] # None /\ rows[r].name = ask[a].name
                    /\ ask[a].mid # None => rows[r].mid = None}

FindByName(a) ==
  /\ pc[a] = "byname"
  /\ pc' = [pc EXCEPT ![a] = "write"]
  /\ IF Adoptable(a) = {} THEN UNCHANGED found
     ELSE \E r \in Adoptable(a) : found' = [found EXCEPT ![a] = r]
  /\ UNCHANGED <<tok, rows, ask, held, waiting, identity, hasId, gone>>

\* A transaction that has written and not yet committed holds its locks.
Open(a) == pc[a] = "commit"

\* The index entries an open transaction holds: its row's new machine id and its old one.
HeldMids(b) == {held[b].row.mid} \cup {rows[r].mid : r \in {held[b].id} \ {q \in Attempts : rows[q] = None}}

\* What a write of row r with machine id mid has to wait for.
MustWait(r, mid) ==
  \E b \in Attempts : /\ Open(b) /\ held[b] # None
                      /\ held[b].id = r \/ (mid # None /\ mid \in HeldMids(b))

\* The INSERT without migration 6's unique index.
Taken_NoIndex(r, mid) == FALSE

\* The unique index: another committed row has this machine id.
Taken(r, mid) == mid # None /\ WithMid(mid) \ {r} # {}

WriteRow(a, r, mid) ==
  /\ ~ MustWait(r, mid)
  /\ IF Taken(r, mid)
     THEN /\ pc' = [pc EXCEPT ![a] = "refused"]
          /\ UNCHANGED <<found, held>>
     ELSE /\ pc' = [pc EXCEPT ![a] = "commit"]
          /\ found' = [found EXCEPT ![a] = r]
          /\ held' = [held EXCEPT ![a] =
                        [id |-> r, row |-> [name |-> ask[a].name, mid |-> mid,
                                            secret |-> a, token |-> ask[a].token]]]
  /\ UNCHANGED <<tok, rows, ask, waiting, identity, hasId, gone>>

\* INSERT: a fresh device id.
Insert(a) ==
  /\ pc[a] = "write" /\ found[a] = None
  /\ WriteRow(a, a, ask[a].mid)

\* UPDATE ... WHERE id: machine_id = COALESCE(NULLIF($9, ''), machine_id).
Update(a) ==
  /\ pc[a] = "write" /\ found[a] # None /\ rows[found[a]] # None
  /\ WriteRow(a, found[a], IF ask[a].mid # None THEN ask[a].mid ELSE rows[found[a]].mid)

\* The row was deleted since the lookup: no row matches, which is no error.
UpdateNothing(a) ==
  /\ pc[a] = "write" /\ found[a] # None /\ rows[found[a]] = None
  /\ pc' = [pc EXCEPT ![a] = "commit"]
  /\ UNCHANGED <<tok, rows, ask, found, held, waiting, identity, hasId, gone>>

Commit(a) ==
  /\ pc[a] = "commit"
  /\ pc' = [pc EXCEPT ![a] = "reply"]
  /\ rows' = IF held[a] = None THEN rows ELSE [rows EXCEPT ![held[a].id] = held[a].row]
  /\ held' = [held EXCEPT ![a] = None]
  /\ UNCHANGED <<tok, ask, found, waiting, identity, hasId, gone>>

\* EnrollDevice answers 200 with the device id and the secret.
Reply(a) ==
  /\ pc[a] = "reply"
  /\ pc' = [pc EXCEPT ![a] = "done"]
  /\ UNCHANGED <<tok, rows, ask, found, held, waiting, identity, hasId, gone>>

RedeemStep(a) ==
  \/ ReadToken(a) \/ FindByMachine(a) \/ FindByName(a)
  \/ Insert(a) \/ Update(a) \/ UpdateNothing(a)
  \/ Commit(a) \/ Reply(a)

EnrollNext ==
  \/ \E t \in Tokens : GenerateToken(t) \/ KillToken(t)
  \/ \E r \in Attempts : DeleteDevice(r)
  \/ \E m \in Machines :
       \/ \E a \in Attempts, t \in Tokens, n \in Names : Request(m, a, t, n)
       \/ Abandon(m) \/ Save(m) \/ Refused(m) \/ Upgrade(m)
  \/ \E a \in Attempts : RedeemStep(a)

EnrollSpec == EnrollInit /\ [][EnrollNext]_vars

-----------------------------------------------------------------------------
(* What the passing runs check. *)

\* Another machine reports one of m's host names, and the agent of one of the two is, or
\* was, an old one: a row enrolled without an id is either's to adopt.
OldClone(m) ==
  \E n \in Machines \ {m} : /\ {m, n} \cap OldAgents # {}
                            /\ HostNames[m] \cap HostNames[n] # {}

\* Two machines never share a device row: whoever holds the secret of a row that carries a
\* machine id is the machine of that id, even when both report one host name and enroll at
\* the same time, and no id has two rows.  This is what migration 6 was made for
\* (machineid.go:18-30).  Only a clone whose agent sends no id yet gets into a row that
\* another machine claimed.
MachinesKeepApart ==
  \A r \in Attempts : rows[r] # None /\ rows[r].mid # None =>
    /\ \/ ask[rows[r].secret].machine = rows[r].mid
       \/ OldClone(rows[r].mid) /\ ask[rows[r].secret].mid = None
    /\ \A q \in Attempts \ {r} : rows[q] = None \/ rows[q].mid # rows[r].mid

\* "A clone whose twin has already claimed a machine id still gets its own row"
\* (handlers.go:558): a patient machine that sends its id does not get a row that another
\* one had claimed when it asked, however the row is written to, taken over or deleted
\* meanwhile.  A row that is claimed only later it may still take; see ClaimedRowsStay.
NewcomersStayOut ==
  \A r \in Attempts : rows[r] # None =>
    LET a == rows[r].secret IN
    ask[a].mid # None /\ ask[a].machine \notin Impatient => r \notin ask[a].others

\* An attempt made after its token was revoked or had expired leaves nothing behind: it is
\* never answered, and no device row names its secret (redeemToken is the only place that
\* enforces it, handlers.go:490-493).
DeadTokensEnrollNothing ==
  \A a \in Attempts : ask[a] # None /\ ask[a].was = "dead" =>
    /\ pc[a] \notin {"commit", "reply", "done"}
    /\ \A r \in Attempts : rows[r] = None \/ rows[r].secret # a

\* AuthenticateAgent lets the machine in: its row exists and has its secret.
LetsIn(m) == /\ rows[identity[m].device] # None
             /\ rows[identity[m].device].secret = identity[m].secret

\* An agent that is not enrolling at the moment is let in with what it saved, whoever else
\* enrolls around it and reports its host name, until an administrator deletes its device.
SavedIdentityWorks(m) ==
  identity[m] # None /\ waiting[m] = None /\ identity[m].device \notin gone => LetsIn(m)

\* An old clone, or one that had looked before it was claimed, enrolled into its row.
TakenOver(m) ==
  /\ OldClone(m)
  /\ rows[identity[m].device] # None
  /\ ask[rows[identity[m].device].secret].machine # m

\* It holds of a machine whose client waits for every answer, whatever the clients of the
\* other machines do, unless it has an old clone that took its row; IdentityIsPermanent shows
\* what giving up does to a machine itself.
PatientAgentIsLetIn ==
  \A m \in Machines \ Impatient : SavedIdentityWorks(m) \/ TakenOver(m)

\* A patient machine has one device: an agent that enrolled without a machine id and is
\* upgraded adopts its row and never leaves a second one (TESTING.md:130).
OneDevicePerMachine ==
  \A m \in Machines \ Impatient :
    Cardinality({r \in Attempts : rows[r] # None /\ ask[rows[r].secret].machine = m}) <= 1

-----------------------------------------------------------------------------
(* What the comments say and the code does otherwise. *)

\* "The token is the credential, so redemption is single-use" (handlers.go:446): one token
\* enrolls one device.  redeemToken deliberately does not mark it used.
TokensAreSingleUse ==
  \A r, q \in Attempts :
    rows[r] # None /\ rows[q] # None /\ rows[r].token = rows[q].token => r = q

\* "Agents built before this existed keep re-enrolling to their own row instead of
\* duplicating it" (handlers.go:543): a machine without an id has one row for its name.
\* Its retry, while the attempt it gave up is still running, makes a second one.
OldAgentsKeepOneRow ==
  \A r, q \in Attempts :
    /\ rows[r] # None /\ rows[q] # None /\ rows[r].mid = None /\ rows[q].mid = None
    /\ rows[r].name = rows[q].name
    => r = q

\* "A clone whose twin has already claimed a machine id still gets its own row, which is the
\* takeover this column exists to prevent" (handlers.go:558): a row once claimed keeps its
\* machine id.  Two upgraded clones that both looked before either wrote take it in turns.
ClaimedRowsStay ==
  [][\A r \in Attempts : /\ rows[r] # None /\ rows[r].mid # None
                         /\ rows'[r] # None
                         => rows'[r].mid = rows[r].mid]_vars

\* "EnrollDevice redeems a token and returns the agent's permanent identity"
\* (handlers.go:443): what a machine saved works until its device is deleted.  An attempt it
\* gave up, committed after the retry's, rotates the secret once more.
IdentityIsPermanent == \A m \in Machines : SavedIdentityWorks(m)

\* "Each redemption mints a fresh, unique agent secret and its own device row"
\* (handlers.go:487): an attempt that is answered wrote a row.  The UPDATE of a row deleted
\* since the lookup writes none and reports none.
RedemptionsHaveRows ==
  [][\A a \in Attempts : pc[a] = "commit" /\ pc'[a] = "reply" =>
       \E r \in Attempts : rows'[r] # None /\ rows'[r].secret = a]_vars

=============================================================================
