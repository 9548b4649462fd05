------------------------------ MODULE Console ------------------------------
(***************************************************************************)
(* The dashboard of one operator, in one browser tab: signing in, the      *)
(* device list, and the forms that move a device between admins and teams. *)
(*                                                                         *)
(*   AuthContext.tsx        who is signed in, and the /auth/me check       *)
(*   api/client.ts          every request; a 401 signs out and reloads     *)
(*   DeviceContext.tsx      the device list, which lives while the signed- *)
(*                          in part of the page is mounted                 *)
(*   AssignDeviceModal, DashboardPage      assign and delete a device      *)
(*   TeamDetailPage         move a device in or out, add or remove a       *)
(*                          member                                         *)
(*   handlers.go            AssignDevice's row (the second operator writes *)
(*                          it too)                                        *)
(*                                                                         *)
(* Nothing on the page cancels a request.  An answer comes whenever the    *)
(* network brings it, to the component that asked if it is still there;    *)
(* the continuation after an `await` runs even when it is not.  So a call  *)
(* carries what it still belongs to ("home").                              *)
(*                                                                         *)
(* One device and one team are modelled.  The list of teams and the users  *)
(* a select offers never change here, so their requests are left out; the  *)
(* status that the presence feed patches into the list is in PresenceFeed. *)
(***************************************************************************)
EXTENDS Naturals, Sequences, SequencesExt, FiniteSets

CONSTANTS
    Admins,      \* the admins a device may be assigned to
    None,        \* no admin, no team, nothing listed
    MaxActs,     \* bound: what the operator does
    MaxEvents,   \* bound: failures, expiries, and the other operator's writes
    MaxCalls     \* bound: requests in flight when the operator acts

Team == "team"

Assignments == [admin : Admins \cup {None}, team : {Team, None}]

VARIABLES
    row,      \* the device's row: an assignment, or None once deleted
    ver,      \* how often the row was written
    member,   \* whether the admin is on the team
    dead,     \* the tokens that have expired
    issued,   \* how many tokens were issued; a token is its number
    tok,      \* AuthContext's token, and drs_token: 0 when there is none
    user,     \* AuthContext's user, and drs_user: the token that told it, or 0
    loading,  \* AuthContext's loading
    signing,  \* LoginPage's loading
    route,    \* the page, which signing in returns to
    list,     \* DeviceContext's devices: the device as last fetched, or None
    ui,       \* the page's own state: its open form, saving, busyId, members
    calls,    \* requests whose handler has not ended, in no order that matters
    acts, events

server == <<row, ver, member, dead, issued>>
auth   == <<tok, user, loading, signing>>
consoleVars   == <<server, auth, route, list, ui, calls, acts, events>>

Moves   == {"moveIn", "moveOut"}
Writes  == Moves \cup {"assign", "delete", "join", "part"}
Reads   == {"devices", "members", "me"}
ByModal == {"moveIn", "join", "login"}      \* sent by a form that unmounts
ByRow   == {"moveOut", "delete", "part"}    \* sent by a button of a row

FreshPage == [open |-> "none", saving |-> FALSE, busy |-> "none", members |-> None]

Homes == {"auth", "page", "app", "none", "gone"}

Call(op, home, t) ==
    [op |-> op, step |-> "send", st |-> "out", home |-> home, mine |-> TRUE,
     tok |-> t, put |-> None, seen |-> 0, got |-> None]

(* The signed-in part of the page, and with it the device list, is mounted. *)
Mounted == ~loading /\ user # 0

ConsoleTypeOK ==
    /\ row \in Assignments \cup {None} /\ ver \in Nat /\ member \in BOOLEAN
    /\ issued \in Nat /\ dead \subseteq 1..issued
    /\ tok \in 0..issued /\ user \in 0..issued
    /\ {loading, signing} \subseteq BOOLEAN
    /\ route \in {"devices", "team"}
    /\ ui.open \in {"none", "assign", "device", "member"}
    /\ ui.busy \in {"none", "device", "member"}
    /\ \A i \in DOMAIN calls :
          /\ calls[i].home \in Homes
          /\ calls[i].st \in {"out", "ok", "fail", "refused"}

----------------------------------------------------------------------------
(* What becomes of the calls in flight.                                    *)

Rehome(cs, from, to) ==
    [i \in DOMAIN cs |->
        [cs[i] EXCEPT !.home = IF @ \in from THEN to ELSE @]]

(* The page is left: its handlers still refresh the list, but set nothing  *)
(* of the page.                                                            *)
LeftPage(cs) == Rehome(cs, {"page"}, "app")

(* The signed-in part is unmounted: what its handlers set is not shown.    *)
Unmount_KeepsAsking(cs) == cs

Unmount(cs) == Rehome(cs, {"page", "app"}, "none")

(* The document is gone: no handler runs, but a write already sent may     *)
(* still reach the server.                                                 *)
Unload(cs) ==
    LET left == {i \in DOMAIN cs : cs[i].op \in Writes /\ cs[i].step = "send"
                                     /\ cs[i].st = "out"}
        kept == SetToSeq(left)
    IN Rehome([i \in DOMAIN kept |-> cs[kept[i]]], Homes, "gone")

(* A form is unmounted: its handlers no longer set its saving.             *)
Disown(cs) == [i \in DOMAIN cs |->
                 IF cs[i].op \in ByModal THEN [cs[i] EXCEPT !.mine = FALSE] ELSE cs[i]]

(* DeviceProvider's effect on the token, and TeamDetailPage's first load,  *)
(* which asks whether or not there is a token.                             *)
AskList(cs, t) ==
    IF t # 0 THEN Append(cs, Call("devices", "app", t)) ELSE cs

AskMembers(cs, p, t) ==
    IF p = "team" THEN Append(cs, Call("members", "page", t)) ELSE cs

----------------------------------------------------------------------------
(* Signing in and out.                                                     *)

(* The document loads, with what local storage holds.  AuthProvider checks *)
(* a token with /auth/me before anything is shown; without one, a stored   *)
(* user is believed.                                                       *)
LoadDocument(p, t, u, cs) ==
    /\ route' = p /\ tok' = t /\ user' = u
    /\ loading' = (t # 0)
    /\ signing' = FALSE
    /\ list' = None /\ ui' = FreshPage
    /\ calls' = IF t # 0 THEN Append(cs, Call("me", "auth", t))
                ELSE IF u # 0 THEN AskMembers(cs, p, t) ELSE cs

(* Bound: the device starts on the team when the team's page is open, and  *)
(* without a team when the device list is.                                 *)
ConsoleInit ==
    /\ route \in {"devices", "team"}
    /\ row \in [admin : Admins, team : {IF route = "team" THEN Team ELSE None}]
    /\ ver = 0
    /\ member = (row.team = Team)
    /\ dead = {} /\ issued = 1
    /\ tok = 1 /\ user = 1 /\ loading = TRUE /\ signing = FALSE
    /\ list = None /\ ui = FreshPage
    /\ calls = <<Call("me", "auth", 1)>>
    /\ acts = 0 /\ events = 0

Act == acts < MaxActs /\ Len(calls) < MaxCalls /\ acts' = acts + 1

(* The reload button of the browser. *)
Reload ==
    /\ Act
    /\ LoadDocument(route, tok, user, Unload(calls))
    /\ UNCHANGED <<server, events>>

(* LoginPage.handleSubmit: the button is disabled while it runs. *)
SubmitLogin ==
    /\ Act
    /\ ~loading /\ user = 0 /\ ~signing
    /\ signing' = TRUE
    /\ calls' = Append(calls, Call("login", "auth", 0))
    /\ UNCHANGED <<server, tok, user, loading, route, list, ui, events>>

(* The state AuthContext.logout leaves. *)
SignedOut(cs) ==
    /\ tok' = 0 /\ user' = 0
    /\ list' = None /\ ui' = FreshPage
    /\ calls' = Unmount(cs)

Logout ==
    /\ Act
    /\ Mounted
    /\ SignedOut(calls)
    /\ UNCHANGED <<server, loading, signing, route, events>>

(* getMe's then: the user is set whoever is signed in by now, and setting  *)
(* one mounts the signed-in part and leaves LoginPage.                     *)
MeTold(c, rest) ==
    LET mounts == ~Mounted
    IN /\ user' = c.tok /\ loading' = FALSE
       /\ signing' = IF mounts THEN FALSE ELSE signing
       /\ calls' = IF mounts THEN AskMembers(AskList(Disown(rest), tok), route, tok)
                   ELSE rest
       /\ UNCHANGED <<tok, route, list, ui>>

(* getMe's catch is logout, whatever failed. *)
MeFailed(rest) ==
    /\ SignedOut(rest)
    /\ loading' = FALSE
    /\ UNCHANGED <<signing, route>>

(* AuthContext.login: setToken and setUser.  A new token asks /auth/me     *)
(* again, and the list again.                                              *)
LoginTold(c, rest) ==
    /\ tok' = c.got /\ user' = c.got
    /\ signing' = FALSE
    /\ LET asked == AskList(Append(Disown(rest), Call("me", "auth", c.got)), c.got)
       IN calls' = IF Mounted THEN asked ELSE AskMembers(asked, route, c.got)
    /\ UNCHANGED <<loading, route, list, ui>>

LoginFailed(c, rest) ==
    /\ signing' = IF c.mine THEN FALSE ELSE signing
    /\ calls' = rest
    /\ UNCHANGED <<tok, user, loading, route, list, ui>>

(* ApiClient.request on a 401: the stored token and user go, and the       *)
(* document is loaded again at /login, which leads to the device list.     *)
Refused == LoadDocument("devices", 0, 0, Unload(calls))

----------------------------------------------------------------------------
(* The pages and their forms.                                              *)

Navigate ==
    /\ Act
    /\ Mounted
    /\ route' = IF route = "team" THEN "devices" ELSE "team"
    /\ ui' = FreshPage
    /\ calls' = AskMembers(LeftPage(calls), route', tok)
    /\ UNCHANGED <<server, auth, list, events>>

(* DashboardPage's refresh button. *)
RefreshDevices ==
    /\ Act
    /\ Mounted /\ route = "devices"
    /\ calls' = Append(calls, Call("devices", "app", tok))
    /\ UNCHANGED <<server, auth, route, list, ui, events>>

(* AssignDeviceModal stays mounted while it is closed and keeps its saving; *)
(* the two forms of a team are mounted afresh each time they are opened.    *)
OpenForm(f) ==
    /\ Mounted /\ ui.open = "none"
    /\ IF route = "devices" THEN f = "assign" /\ list # None ELSE f \in {"device", "member"}
    /\ ui' = [ui EXCEPT !.open = f]
    /\ UNCHANGED <<server, auth, route, list, calls, acts, events>>

FormClosed(u) == [u EXCEPT !.open = "none", !.saving = IF u.open = "assign" THEN @ ELSE FALSE]

CloseForm ==
    /\ Mounted /\ ui.open # "none"
    /\ ui' = FormClosed(ui)
    /\ calls' = Disown(calls)
    /\ UNCHANGED <<server, auth, route, list, acts, events>>

Send(op, put, seen) ==
    calls' = Append(calls, [Call(op, "page", tok) EXCEPT !.put = put, !.seen = seen])

SaveForm(op, put, seen) ==
    /\ ~ui.saving
    /\ Send(op, put, seen)
    /\ ui' = [ui EXCEPT !.saving = TRUE]

(* AssignDeviceModal.handleSubmit: both fields, as the selects show them. *)
SubmitAssign ==
    /\ Act
    /\ Mounted /\ ui.open = "assign"
    /\ \E put \in Assignments : SaveForm("assign", put, 0)
    /\ UNCHANGED <<server, auth, route, list, events>>

(* What the team's page and its two forms offer, from the lists they have. *)
DeviceInTeam  == list # None /\ list.team = Team
DeviceOffered == list # None /\ list.team # Team
MemberShown   == ui.members = TRUE
MemberOffered == ui.members # TRUE

(* AddDeviceToTeamModal.handleSubmit: the admin is the one the list shows. *)
SubmitMoveIn ==
    /\ Act
    /\ Mounted /\ ui.open = "device" /\ DeviceOffered
    /\ SaveForm("moveIn", [admin |-> list.admin, team |-> Team], list.ver)
    /\ UNCHANGED <<server, auth, route, list, events>>

(* AddMemberModal.handleSubmit. *)
SubmitJoin ==
    /\ Act
    /\ Mounted /\ ui.open = "member" /\ MemberOffered
    /\ SaveForm("join", TRUE, 0)
    /\ UNCHANGED <<server, auth, route, list, events>>

(* A row's button is disabled while busyId names that row. *)
ClickRow(op, what, put, seen) ==
    /\ Act
    /\ Mounted /\ ui.open = "none" /\ ui.busy # what
    /\ Send(op, put, seen)
    /\ ui' = [ui EXCEPT !.busy = what]
    /\ UNCHANGED <<server, auth, route, list, events>>

(* DashboardPage.handleDelete. *)
ClickDelete == route = "devices" /\ list # None /\ ClickRow("delete", "device", None, 0)

(* TeamDetailPage.removeDeviceFromTeam: the admin is passed back through. *)
ClickMoveOut ==
    /\ route = "team" /\ DeviceInTeam
    /\ ClickRow("moveOut", "device", [admin |-> list.admin, team |-> None], list.ver)

(* TeamDetailPage.removeMember. *)
ClickPart == route = "team" /\ MemberShown /\ ClickRow("part", "member", FALSE, 0)

----------------------------------------------------------------------------
(* The server answers.                                                     *)

Valid(t) == t # 0 /\ t \notin dead

Listed == IF row = None THEN None
             ELSE [admin |-> row.admin, team |-> row.team, ver |-> ver]

(* A write takes its whole effect at once: one UPDATE, DELETE or INSERT. *)
Write(c) ==
    CASE c.op \in Moves \cup {"assign"} -> row' = c.put /\ ver' = ver + 1 /\ UNCHANGED member
      [] c.op = "delete"                -> row' = None /\ ver' = ver + 1 /\ UNCHANGED member
      [] c.op \in {"join", "part"}      -> member' = c.put /\ UNCHANGED <<row, ver>>

(* What is written must still be there: 404 otherwise. *)
Found(c) == CASE c.op \in {"join"} -> TRUE
              [] c.op = "part"     -> member
              [] OTHER             -> row # None

Asked(c) == IF c.step = "list" \/ c.op \in {"devices", "members"}
            THEN IF c.op \in {"join", "part", "members"} THEN "members" ELSE "devices"
            ELSE c.op

Told(what) == CASE what = "devices" -> Listed
                [] what = "members" -> member
                [] what = "me"      -> None

(* The answer a call gets, and what it does to the rows. *)
Answered(i, st, got) ==
    LET c == calls[i] IN
    calls' = IF c.home = "gone" THEN RemoveAt(calls, i)
             ELSE [calls EXCEPT ![i].st = st, ![i].got = got]

Serve(i) ==
    LET c == calls[i] IN
    /\ c.st = "out"
    /\ \/ /\ Asked(c) = "login"
          /\ \/ Answered(i, "ok", issued + 1) /\ issued' = issued + 1
             \/ Answered(i, "refused", None) /\ UNCHANGED issued
          /\ UNCHANGED <<row, ver, member>>
       \/ /\ Asked(c) # "login" /\ ~Valid(c.tok)
          /\ Answered(i, "refused", None)
          /\ UNCHANGED <<row, ver, member, issued>>
       \/ /\ Asked(c) \in Reads /\ Valid(c.tok)
          /\ Answered(i, "ok", Told(Asked(c)))
          /\ UNCHANGED <<row, ver, member, issued>>
       \/ /\ Asked(c) \in Writes /\ Valid(c.tok) /\ Found(c)
          /\ Answered(i, "ok", None) /\ Write(c)
          /\ UNCHANGED issued
       \/ /\ Asked(c) \in Writes /\ Valid(c.tok) /\ ~Found(c)
          /\ Answered(i, "fail", None)
          /\ UNCHANGED <<row, ver, member, issued>>
    /\ UNCHANGED <<dead, auth, route, list, ui, acts, events>>

Event == events < MaxEvents /\ events' = events + 1

(* A request fails before the server did what it asks, or, a write, after. *)
Fail(i) ==
    /\ Event
    /\ \/ calls[i].st = "out"
       \/ calls[i].st = "ok" /\ Asked(calls[i]) \in Writes
    /\ Answered(i, "fail", None)
    /\ UNCHANGED <<server, auth, route, list, ui, acts>>

Expire ==
    /\ Event
    /\ \E t \in (1..issued) \ dead : dead' = dead \cup {t}
    /\ UNCHANGED <<row, ver, member, issued, auth, route, list, ui, calls, acts>>

(* Another super admin assigns the device. *)
OtherAssigns ==
    /\ Event
    /\ row # None
    /\ \E a \in Admins \cup {None} : row' = [row EXCEPT !.admin = a]
    /\ ver' = ver + 1
    /\ UNCHANGED <<member, dead, issued, auth, route, list, ui, calls, acts>>

----------------------------------------------------------------------------
(* The page takes an answer.                                               *)

(* refreshDevices and loadMembers set their list on success only. *)
Shown(c) ==
    /\ list' = IF Asked(c) = "devices" /\ c.home \in {"page", "app"} /\ c.st = "ok"
               THEN c.got ELSE list
    /\ UNCHANGED <<auth, route>>

Members(c) == IF Asked(c) = "members" /\ c.home = "page" /\ c.st = "ok"
              THEN [ui EXCEPT !.members = c.got] ELSE ui

(* The finally of a write's handler, which runs whether it succeeded or    *)
(* not: the row's button, or the form's, is enabled again.                 *)
Released_OnSuccess(c, ok, u) == IF ok THEN [u EXCEPT !.busy = "none", !.saving = FALSE] ELSE u

Released(c, ok, u) ==
    IF c.op \in ByRow THEN [u EXCEPT !.busy = "none"]
    ELSE IF c.mine THEN [u EXCEPT !.saving = FALSE] ELSE u

(* The form onClose closes: whichever one of its kind is open by then. *)
FormOf(op) == CASE op = "assign" -> "assign" [] op = "moveIn" -> "device"
                [] op = "join" -> "member" [] OTHER -> "no form"

(* The end of a write's handler: onClose on success, and the finally. *)
Finished(c, ok, u) ==
    LET v == Released(c, ok, u)
    IN IF c.home # "page" THEN u
       ELSE IF ok /\ u.open = FormOf(c.op) THEN FormClosed(v) ELSE v

Take(i) ==
    LET c    == calls[i]
        rest == RemoveAt(calls, i)
    IN /\ c.st # "out"
       /\ \/ c.st = "refused" /\ Refused
          \/ c.op = "me" /\ c.st = "ok" /\ MeTold(c, rest)
          \/ c.op = "me" /\ c.st = "fail" /\ MeFailed(rest)
          \/ c.op = "login" /\ c.st = "ok" /\ LoginTold(c, rest)
          \/ c.op = "login" /\ c.st = "fail" /\ LoginFailed(c, rest)
          \/ /\ c.op \in {"devices", "members"} /\ c.st # "refused"
             /\ Shown(c) /\ ui' = Members(c) /\ calls' = rest
          \/ /\ c.op \in Writes /\ c.step = "send" /\ c.st = "ok"
             /\ calls' = [calls EXCEPT ![i].step = "list", ![i].st = "out", ![i].tok = tok]
             /\ UNCHANGED <<auth, route, list, ui>>
          \/ /\ c.op \in Writes /\ c.step = "send" /\ c.st = "fail"
             /\ ui' = Finished(c, FALSE, ui) /\ calls' = rest
             /\ UNCHANGED <<auth, route, list>>
          \/ /\ c.op \in Writes /\ c.step = "list" /\ c.st # "refused"
             /\ Shown(c) /\ ui' = Finished(c, TRUE, Members(c))
             /\ calls' = IF ui'.open # ui.open THEN Disown(rest) ELSE rest
       /\ UNCHANGED <<server, acts, events>>

ServeSome == \E i \in DOMAIN calls : Serve(i)
TakeSome  == \E i \in DOMAIN calls : Take(i)

ConsoleNext ==
    \/ Reload \/ SubmitLogin \/ Logout \/ Navigate \/ RefreshDevices
    \/ \E f \in {"assign", "device", "member"} : OpenForm(f)
    \/ CloseForm
    \/ SubmitAssign \/ SubmitMoveIn \/ SubmitJoin
    \/ ClickDelete \/ ClickMoveOut \/ ClickPart
    \/ ServeSome \/ TakeSome
    \/ \E i \in DOMAIN calls : Fail(i)
    \/ Expire \/ OtherAssigns

ConsoleSpec == ConsoleInit /\ [][ConsoleNext]_consoleVars

(* A request is answered, or fails, in the end, and its handler then runs. *)
FairConsoleSpec == ConsoleSpec /\ WF_consoleVars(ServeSome) /\ WF_consoleVars(TakeSome)

----------------------------------------------------------------------------
(* Without a token the page shows no device and no team's members, however *)
(* late the answers of the last sign-in come and whatever they mount:      *)
(* DeviceContext.tsx:30, 35-43 and TeamDetailPage.tsx:36, 45-57 keep both  *)
(* in components that signing out unmounts.                                *)
SignedOutShowsNothing == tok = 0 => list = None /\ ui.members = None

(* A team move that nobody's assignment overtook since the list it was     *)
(* made from leaves the device's admin as it is, although the request      *)
(* replaces both fields: TeamDetailPage.tsx:90-93, 433.                    *)
TeamMoveKeepsAdmin ==
    [][\A i \in DOMAIN calls :
          LET c == calls[i]
          IN c.op \in Moves /\ c.step = "send" /\ c.seen = ver
                /\ row' # row /\ row' = c.put /\ row # None
                /\ (i \notin DOMAIN calls' \/ calls'[i].st # c.st)
             => row'.admin = row.admin]_consoleVars

(* Something the page shows as running: the sign-in check, the sign-in     *)
(* form, a form that saves, a row whose button is disabled.                *)
Busy == loading \/ signing \/ ui.saving \/ ui.busy # "none"

(* Whatever is shown as running ends, through failures, refused tokens,    *)
(* closed forms and pages left in the middle: the finally of every handler *)
(* (AuthContext.tsx:34, LoginPage.tsx:31, AssignDeviceModal.tsx:51,        *)
(* TeamDetailPage.tsx:97, 118, 343, 438).                                  *)
NothingStaysBusy == Busy ~> ~Busy

----------------------------------------------------------------------------
(* What the code does not promise (README, "Divergences").                 *)

(* Signing out is final until somebody signs in: a late /auth/me answer    *)
(* brings the user back (AuthContext.tsx:26-30).                           *)
SignedOutStaysOut == tok = 0 => user = 0

(* "its individual admin is left as it is", TeamDetailPage.tsx:456. *)
MoveLeavesAdmin ==
    [][\A i \in DOMAIN calls :
          LET c == calls[i]
          IN c.op \in Moves /\ c.step = "send" /\ c.st = "out"
                /\ row' # row /\ row' = c.put /\ row # None
                /\ (i \notin DOMAIN calls' \/ calls'[i].st # c.st)
             => row'.admin = row.admin]_consoleVars
=============================================================================
