------------------------------ MODULE Sessions ------------------------------
(***************************************************************************)
(* Accounts that sign in, and their sessions: admins (internal/panel/      *)
(* admins.go, twofa.go, api.go handleLogin and handleLogoutAll, store.go,  *)
(* reset.go) and one portal user (portal.go, api.go                        *)
(* handleSetPortalPassword).  A session is a signed cookie; it is honoured *)
(* while its epoch is the account's.  Requests interleave between any two  *)
(* accesses to the store.                                                  *)
(*                                                                         *)
(* TOTP secrets are numbered as they are made up; a code is the number of  *)
(* the secret it was generated from.  A login gives the right password: a  *)
(* wrong one, like a request the limiter refuses, changes nothing here.    *)
(* Cookies do not expire within a run.                                     *)
(***************************************************************************)
EXTENDS Integers, FiniteSets

CONSTANTS
    Admins,     \* admin usernames
    Boot,       \* PANEL_ADMIN_USER
    Portal,     \* the portal user
    First,      \* admins that exist at the start
    Workers,    \* goroutines that handle requests, and one-shot processes
    Ops,        \* the requests a run makes
    MaxOps,     \* bound: requests
    Faults      \* which FaultKinds the run injects

FaultKinds == {"dbError", "panelRestart"}

AdminOps  == {"create", "delete", "password", "logoutAll", "setup", "verify", "disable"}
PortalOps == {"portalSet", "portalClear", "portalChange"}
CliOps    == {"reset", "resetClear"}
AllOps    == AdminOps \cup PortalOps \cup CliOps \cup {"login"}

ASSUME SessionsNames == Boot \in Admins /\ First \subseteq Admins /\ First # {} /\ Portal \notin Admins
ASSUME SessionsBounds == MaxOps \in Nat /\ Ops \subseteq AllOps /\ Faults \subseteq FaultKinds

Accounts == Admins \cup {Portal}

Numbers == Nat

\* What is stored of an account: whether a password is set, the TOTP secret (0:
\* none), whether 2FA is on, and session_epoch.  2FA is never on without a secret.
Row == {r \in [pw: BOOLEAN, secret: Numbers, on: BOOLEAN, epoch: Numbers] :
            r.on => r.secret # 0}

NewRow == [pw |-> TRUE, secret |-> 0, on |-> FALSE, epoch |-> 0]

VARIABLES
    row,        \* row[a]: the stored rows; the domain is who has one
    sessions,   \* cookies handed out
    wk,         \* wk[w]: the request worker w handles
    made,       \* secrets made up so far
    ops,        \* requests so far
    (* history, read by no action of the system *)
    gen,        \* gen[a]: how often a's sessions were to be revoked
    enrolled,   \* enrolled[a]: the secret a was told is on, 0 if none
    causes      \* what has gone wrong so far, and for whom

histVars == <<gen, enrolled, causes>>
vars == <<row, sessions, wk, made, ops, histVars>>

Session == [who: Accounts, epoch: Numbers, gen: Numbers]
CauseKinds == {"overlap", "race2fa", "recreated", "reissued", "unbumped"} \X Accounts

\* A request: the account it is about, its code or new secret, the epoch of its
\* cookie, what the handler has read; found is for -reset-admin.
Request == [op: AllOps \cup {"none"}, pc: {"idle", "read", "write", "second"},
            who: Accounts, arg: Numbers, cookie: Numbers, seen: Row, gen: Numbers,
            found: BOOLEAN]
IdleReq == [op |-> "none", pc |-> "idle", who |-> Boot, arg |-> 0, cookie |-> 0,
            seen |-> NewRow, gen |-> 0, found |-> FALSE]

Has(a) == a \in DOMAIN row

\* requireAuth, currentAdmin, portalUser.
Honoured(s) == Has(s.who) /\ row[s.who].epoch = s.epoch

Init ==
    /\ row = [a \in First \cup {Portal} |-> NewRow]
    /\ sessions = {[who |-> a, epoch |-> 0, gen |-> 0] : a \in First \cup {Portal}}
    /\ wk = [w \in Workers |-> IdleReq]
    /\ made = 0
    /\ ops = 0
    /\ gen = [a \in Accounts |-> 0]
    /\ enrolled = [a \in Accounts |-> 0]
    /\ causes = {}

-----------------------------------------------------------------------------
(* The store. *)

Put(a, r) == row' = [b \in DOMAIN row \cup {a} |-> IF b = a THEN r ELSE row[b]]

\* An UPDATE of a row that is gone changes nothing.
Update(a, r) == IF Has(a) THEN Put(a, r) ELSE UNCHANGED row

Revoke(a) == gen' = [gen EXCEPT ![a] = @ + 1]

\* Sessions of the account that were handed out while it had a row before.
Recreated(a) ==
    IF \E s \in sessions : s.who = a THEN causes \cup {<<"recreated", a>>} ELSE causes

\* Bug: the new password leaves the sessions alone.
BugSetAdminPassword(a) == Update(a, row[a])

\* SetAdminPassword bumps session_epoch too.
SetAdminPassword(a) == Update(a, [row[a] EXCEPT !.epoch = @ + 1])

BumpSessionEpoch(a) == Update(a, [row[a] EXCEPT !.epoch = @ + 1])

SetAdminTOTP(a, secret, on) == Update(a, [row[a] EXCEPT !.secret = secret, !.on = on])

-----------------------------------------------------------------------------
(* A request. *)

Go(w, r)   == wk' = [wk EXCEPT ![w] = r]
At(w, op, pc) == wk[w].op = op /\ wk[w].pc = pc
Finish(w)  == Go(w, IdleReq)

\* Whose cookie a request needs: its own account's, any admin's, nobody's.
Cookies(op, a) ==
    CASE op \in {"logoutAll", "setup", "verify", "disable", "portalChange"} -> {a}
      [] op \in {"create", "delete", "password", "portalSet", "portalClear"} -> Admins
      [] OTHER -> {}

Target(op) ==
    CASE op \in PortalOps -> {Portal}
      [] op \in CliOps -> {Boot}
      [] op = "login" -> Accounts
      [] OTHER -> Admins

\* A request arrives, and passes requireAuth or portalUser.
Begin(w, op, a) ==
    /\ wk[w].pc = "idle"
    /\ ops < MaxOps
    /\ a \in Target(op)
    /\ ops' = ops + 1
    /\ made' = IF op = "setup" THEN made + 1 ELSE made
    /\ \E arg \in (CASE op = "setup" -> {made'}
                      [] op \in {"verify", "disable", "login"} -> 0..made
                      [] OTHER -> {0}) :
       \E cookie \in (IF Cookies(op, a) = {} THEN {0}
                      ELSE {s.epoch : s \in {s \in sessions : Honoured(s)
                                                   /\ s.who \in Cookies(op, a)}}) :
            Go(w, [IdleReq EXCEPT !.op = op, !.pc = "read", !.who = a, !.arg = arg,
                                  !.cookie = IF Cookies(op, a) = {a} THEN cookie ELSE 0])
    /\ UNCHANGED <<row, sessions, histVars>>

\* handleLogin, handlePortalLogin: a right password, and with 2FA on a code of the
\* stored secret.  The session carries the epoch of the row that was read.
Login(w) ==
    /\ At(w, "login", "read")
    /\ LET a == wk[w].who IN
        /\ sessions' = IF Has(a) /\ row[a].pw /\ (row[a].on => row[a].secret = wk[w].arg)
                       THEN sessions \cup {[who |-> a, epoch |-> row[a].epoch, gen |-> gen[a]]}
                       ELSE sessions
    /\ Finish(w)
    /\ UNCHANGED <<row, made, ops, histVars>>

\* handleCreateAdmin: refused if the name is taken ...
CreateCheck(w) ==
    /\ At(w, "create", "read")
    /\ IF Has(wk[w].who) THEN Finish(w) ELSE Go(w, [wk[w] EXCEPT !.pc = "write"])
    /\ UNCHANGED <<row, sessions, made, ops, histVars>>

\* ... and once more by the UNIQUE column.
CreateAdmin(w) ==
    /\ At(w, "create", "write")
    /\ Finish(w)
    /\ IF Has(wk[w].who) THEN UNCHANGED <<row, causes>>
       ELSE /\ Put(wk[w].who, NewRow)
            /\ causes' = Recreated(wk[w].who)
    /\ UNCHANGED <<sessions, made, ops, gen, enrolled>>

\* Bug: the count may be one.
BugCountAdmins(w) ==
    /\ At(w, "delete", "read")
    /\ IF Cardinality(DOMAIN row \cap Admins) < 1 THEN Finish(w)
       ELSE Go(w, [wk[w] EXCEPT !.pc = "write"])
    /\ UNCHANGED <<row, sessions, made, ops, histVars>>

\* handleDeleteAdmin: CountAdmins ...
CountAdmins(w) ==
    /\ At(w, "delete", "read")
    /\ IF Cardinality(DOMAIN row \cap Admins) <= 1 THEN Finish(w)
       ELSE Go(w, [wk[w] EXCEPT !.pc = "write"])
    /\ UNCHANGED <<row, sessions, made, ops, histVars>>

\* ... DeleteAdmin ("overlap": the count is no longer what it was) ...
DeleteAdmin(w) ==
    /\ At(w, "delete", "write")
    /\ Go(w, [wk[w] EXCEPT !.pc = "second"])
    /\ LET a == wk[w].who IN
        /\ row' = [b \in DOMAIN row \ {a} |-> row[b]]
        /\ causes' = IF \E v \in Workers \ {w} : wk[v].op = "delete" /\ wk[v].pc = "write"
                     THEN causes \cup {<<"overlap", a>>} ELSE causes
        /\ enrolled' = [enrolled EXCEPT ![a] = 0]
        /\ Revoke(a)
    /\ UNCHANGED <<sessions, made, ops>>

\* ... and BumpAdminSessionEpoch, of a row that is gone or of its successor.
BumpDeleted(w) ==
    /\ At(w, "delete", "second")
    /\ Finish(w)
    /\ BumpSessionEpoch(wk[w].who)
    /\ UNCHANGED <<sessions, made, ops, histVars>>

\* Bug: a new secret may be set up over one that is on.
BugAllowed(q, r) ==
    /\ q.op # "password" => r.epoch = q.cookie
    /\ q.op = "verify" => r.secret # 0 /\ r.secret = q.arg
    /\ q.op = "disable" /\ r.on => r.secret = q.arg

\* What the handlers check: currentAdmin once more; 2FA is not set up over one that
\* is on; a code fits the secret just read.
Allowed(q, r) ==
    /\ q.op # "password" => r.epoch = q.cookie
    /\ q.op = "setup" => ~r.on
    /\ q.op = "verify" => r.secret # 0 /\ r.secret = q.arg
    /\ q.op = "disable" /\ r.on => r.secret = q.arg

\* handleChangeAdminPassword, handleLogoutAll and the 2FA handlers read the row.
ReadAdmin(w) ==
    /\ wk[w].op \in {"password", "logoutAll", "setup", "verify", "disable"}
    /\ wk[w].pc = "read"
    /\ IF Has(wk[w].who) /\ Allowed(wk[w], row[wk[w].who])
       THEN Go(w, [wk[w] EXCEPT !.pc = "write", !.seen = row[wk[w].who]])
       ELSE Finish(w)
    /\ UNCHANGED <<row, sessions, made, ops, histVars>>

ChangePassword(w) ==
    /\ At(w, "password", "write")
    /\ Finish(w)
    /\ SetAdminPassword(wk[w].who)
    /\ Revoke(wk[w].who)
    /\ UNCHANGED <<sessions, made, ops, enrolled, causes>>

LogoutAll(w) ==
    /\ At(w, "logoutAll", "write")
    /\ Finish(w)
    /\ BumpSessionEpoch(wk[w].who)
    /\ Revoke(wk[w].who)
    /\ UNCHANGED <<sessions, made, ops, enrolled, causes>>

\* The row's 2FA is no longer what the handler read.
Raced(w) ==
    IF Has(wk[w].who) /\ row[wk[w].who].secret = wk[w].seen.secret
                     /\ row[wk[w].who].on = wk[w].seen.on
    THEN causes ELSE causes \cup {<<"race2fa", wk[w].who>>}

\* handle2FASetup stores a pending secret.
Setup2FA(w) ==
    /\ At(w, "setup", "write")
    /\ Finish(w)
    /\ SetAdminTOTP(wk[w].who, wk[w].arg, FALSE)
    /\ causes' = Raced(w)
    /\ UNCHANGED <<sessions, made, ops, gen, enrolled>>

\* handle2FAVerify writes back the secret it read, now on.
Verify2FA(w) ==
    /\ At(w, "verify", "write")
    /\ Finish(w)
    /\ SetAdminTOTP(wk[w].who, wk[w].seen.secret, TRUE)
    /\ enrolled' = [enrolled EXCEPT ![wk[w].who] = wk[w].seen.secret]
    /\ causes' = Raced(w)
    /\ UNCHANGED <<sessions, made, ops, gen>>

\* Bug: the secret goes and the flag stays.
BugDisable2FA(w) ==
    /\ At(w, "disable", "write")
    /\ Finish(w)
    /\ SetAdminTOTP(wk[w].who, 0, wk[w].seen.on)
    /\ enrolled' = [enrolled EXCEPT ![wk[w].who] = 0]
    /\ causes' = Raced(w)
    /\ UNCHANGED <<sessions, made, ops, gen>>

\* handle2FADisable.
Disable2FA(w) ==
    /\ At(w, "disable", "write")
    /\ Finish(w)
    /\ SetAdminTOTP(wk[w].who, 0, FALSE)
    /\ enrolled' = [enrolled EXCEPT ![wk[w].who] = 0]
    /\ causes' = Raced(w)
    /\ UNCHANGED <<sessions, made, ops, gen>>

-----------------------------------------------------------------------------
(* panel -reset-admin, a process of its own on the same database. *)

ResetRead(w) ==
    /\ wk[w].op \in CliOps
    /\ wk[w].pc = "read"
    /\ Go(w, [wk[w] EXCEPT !.pc = "write", !.found = Has(Boot)])
    /\ UNCHANGED <<row, sessions, made, ops, histVars>>

\* CreateAdmin if there was none (an error ends it), else SetAdminPassword.
ResetWrite(w) ==
    /\ wk[w].op \in CliOps
    /\ wk[w].pc = "write"
    /\ LET found == wk[w].found
           next  == IF wk[w].op = "resetClear" THEN [wk[w] EXCEPT !.pc = "second"]
                                               ELSE IdleReq
       IN  \/ /\ found
              /\ SetAdminPassword(Boot)
              /\ Revoke(Boot)
              /\ Go(w, next)
              /\ UNCHANGED causes
           \/ /\ ~found
              /\ ~Has(Boot)
              /\ Put(Boot, NewRow)
              /\ causes' = Recreated(Boot)
              /\ Go(w, next)
              /\ UNCHANGED gen
           \/ /\ ~found
              /\ Has(Boot)
              /\ Finish(w)
              /\ UNCHANGED <<row, gen, causes>>
    /\ UNCHANGED <<sessions, made, ops, enrolled>>

\* -clear-2fa.
ResetClear(w) ==
    /\ At(w, "resetClear", "second")
    /\ Finish(w)
    /\ SetAdminTOTP(Boot, 0, FALSE)
    /\ enrolled' = [enrolled EXCEPT ![Boot] = 0]
    /\ UNCHANGED <<sessions, made, ops, gen, causes>>

-----------------------------------------------------------------------------
(* The portal user's password. *)

\* handleSetPortalPassword: the password, or none ...
SetPortalPassword(w) ==
    /\ wk[w].op \in {"portalSet", "portalClear"}
    /\ wk[w].pc = "read"
    /\ Go(w, [wk[w] EXCEPT !.pc = "second"])
    /\ Put(Portal, [row[Portal] EXCEPT !.pw = (wk[w].op = "portalSet")])
    /\ Revoke(Portal)
    /\ UNCHANGED <<sessions, made, ops, enrolled, causes>>

\* ... then BumpUserSessionEpoch, whose error is ignored.
BumpPortal(w) ==
    /\ wk[w].op \in {"portalSet", "portalClear"}
    /\ wk[w].pc = "second"
    /\ Finish(w)
    /\ \/ BumpSessionEpoch(Portal) /\ UNCHANGED causes
       \/ /\ "dbError" \in Faults
          /\ causes' = causes \cup {<<"unbumped", Portal>>}
          /\ UNCHANGED row
    /\ UNCHANGED <<sessions, made, ops, gen, enrolled>>

\* handlePortalChangePassword: ChangeUserPortalPassword ...
ChangePortalPassword(w) ==
    /\ At(w, "portalChange", "read")
    /\ Put(Portal, [row[Portal] EXCEPT !.pw = TRUE, !.epoch = @ + 1])
    /\ Revoke(Portal)
    /\ Go(w, [wk[w] EXCEPT !.pc = "second", !.gen = gen[Portal] + 1])
    /\ UNCHANGED <<sessions, made, ops, enrolled, causes>>

\* ... then a new cookie with the epoch read now ("reissued": it is a later one).
Reissue(w) ==
    /\ At(w, "portalChange", "second")
    /\ Finish(w)
    /\ sessions' = sessions \cup {[who |-> Portal, epoch |-> row[Portal].epoch,
                                   gen |-> wk[w].gen]}
    /\ causes' = IF gen[Portal] # wk[w].gen THEN causes \cup {<<"reissued", Portal>>}
                                            ELSE causes
    /\ UNCHANGED <<row, made, ops, gen, enrolled>>

-----------------------------------------------------------------------------
\* A store error ends the request with nothing (more) changed.
StoreFails(w) ==
    /\ "dbError" \in Faults
    /\ wk[w].pc # "idle"
    /\ wk[w].pc = "second" => wk[w].op \notin {"portalSet", "portalClear"}
    /\ Finish(w)
    /\ UNCHANGED <<row, sessions, made, ops, histVars>>

\* The panel ends wherever its requests are and starts again: EnsureAdmin.
PanelRestart ==
    /\ "panelRestart" \in Faults
    /\ ops < MaxOps
    /\ wk' = [w \in Workers |-> IF wk[w].op \in CliOps THEN wk[w] ELSE IdleReq]
    /\ IF Has(Boot) THEN UNCHANGED row ELSE Put(Boot, NewRow)
    /\ causes' = (IF Has(Boot) THEN causes ELSE Recreated(Boot))
                 \cup {<<"unbumped", wk[w].who>> : w \in
                         {w \in Workers : wk[w].op \in {"portalSet", "portalClear"}
                                          /\ wk[w].pc = "second"}}
    /\ ops' = ops + 1
    /\ UNCHANGED <<sessions, made, gen, enrolled>>

Handle(w) ==
    \/ Login(w) \/ CreateCheck(w) \/ CreateAdmin(w)
    \/ CountAdmins(w) \/ DeleteAdmin(w) \/ BumpDeleted(w)
    \/ ReadAdmin(w) \/ ChangePassword(w) \/ LogoutAll(w)
    \/ Setup2FA(w) \/ Verify2FA(w) \/ Disable2FA(w)
    \/ ResetRead(w) \/ ResetWrite(w) \/ ResetClear(w)
    \/ SetPortalPassword(w) \/ BumpPortal(w) \/ ChangePortalPassword(w) \/ Reissue(w)
    \/ StoreFails(w)

Next ==
    \/ \E w \in Workers : Handle(w) \/ \E op \in Ops, a \in Accounts : Begin(w, op, a)
    \/ PanelRestart

Spec == Init /\ [][Next]_vars

-----------------------------------------------------------------------------
\* Type invariant; no account has 2FA on without a secret.
TypeOK ==
    /\ DOMAIN row \subseteq Accounts
    /\ \A a \in DOMAIN row : row[a] \in Row
    /\ sessions \subseteq Session
    /\ wk \in [Workers -> Request]
    /\ made \in Numbers
    /\ ops \in Numbers
    /\ gen \in [Accounts -> Numbers]
    /\ enrolled \in [Accounts -> Numbers]
    /\ causes \subseteq CauseKinds

Excused(kinds, a) == \E k \in kinds : <<k, a>> \in causes

\* "cannot delete the last admin" (admins.go:69): somebody can always administer
\* the panel, unless two deletions were between their count and their delete.
SomeAdmin ==
    (\A a \in Admins : ~Excused({"overlap"}, a)) => DOMAIN row \cap Admins # {}

\* "Bumping it revokes every outstanding session for that account" (auth.go:28):
\* a session that is honoured was handed out after the account's last password
\* change, sign-out everywhere or deletion.  Except: an account recreated under its
\* old name starts at epoch 0 again; the bump of the two-step portal change has not
\* happened; a portal user's own change read the epoch of a later one.
RevokedStaysRevoked ==
    \A s \in sessions :
        ( /\ Honoured(s)
          /\ ~Excused({"recreated", "reissued", "unbumped"}, s.who)
          /\ \A w \in Workers : ~(wk[w].op \in PortalOps /\ wk[w].pc = "second") )
        => s.gen = gen[s.who]

\* An admin who was told that 2FA is enabled has it enabled, with the secret of the
\* authenticator that was verified, until it is disabled, cleared or the account
\* deleted; unless a 2FA request wrote over a row that had changed since it read it
\* (twofa.go).
TwoFactorKept ==
    \A a \in DOMAIN row \cap Admins :
        ~Excused({"race2fa"}, a) =>
            /\ row[a].on <=> enrolled[a] # 0
            /\ row[a].on => row[a].secret = enrolled[a]
=============================================================================
