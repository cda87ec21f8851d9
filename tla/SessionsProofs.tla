--------------------------- MODULE SessionsProofs ---------------------------
(***************************************************************************)
(* Proofs about Sessions, for any number of admins, workers and requests:  *)
(* its types, and the three promises about who may administer the panel,   *)
(* which sessions are honoured and whose two-factor setting is in force.   *)
(***************************************************************************)
EXTENDS Sessions, FiniteSetTheorems, TLAPS

\* What a request in progress knows: it is about an account its kind may be about,
\* and what ReadAdmin checked still holds of the row it read.
RequestOK ==
    \A w \in Workers :
        /\ wk[w].op # "none" => wk[w].who \in Target(wk[w].op)
        /\ wk[w].pc # "idle" => wk[w].op # "none"
        /\ wk[w].pc = "write" /\ wk[w].op = "verify" => wk[w].seen.secret # 0
        /\ wk[w].pc = "write" /\ wk[w].op = "setup" => ~wk[w].seen.on

\* The portal user's row is never deleted.
PortalStays == Portal \in DOMAIN row

NoOverlap == \A a \in Admins : ~Excused({"overlap"}, a)

Administrators == DOMAIN row \cap Admins

\* Somebody can administer the panel, and while a deletion is between its count and
\* its delete there is somebody else.
AdminsLeft ==
    NoOverlap =>
        /\ Administrators # {}
        /\ \A w \in Workers : At(w, "delete", "write") =>
              \E a, b \in Administrators : a # b

\* A session is not of a later epoch than its account, and one of the same epoch is of
\* the account's last revocation, unless the portal user's epoch has yet to be bumped.
SessionsInStep ==
    \A s \in sessions :
        Has(s.who) /\ ~Excused({"recreated", "reissued", "unbumped"}, s.who) =>
            /\ s.epoch <= row[s.who].epoch
            /\ s.epoch = row[s.who].epoch =>
                  \/ s.gen = gen[s.who]
                  \/ /\ s.who = Portal
                     /\ \E w \in Workers : /\ wk[w].op \in {"portalSet", "portalClear"}
                                           /\ wk[w].pc = "second"

\* 2FA of an admin is what the admin was told; one without a row was told nothing.
EnrolledInStep ==
    \A a \in Admins :
        ~Excused({"race2fa"}, a) =>
            /\ Has(a) => /\ row[a].on <=> enrolled[a] # 0
                         /\ row[a].on => row[a].secret = enrolled[a]
            /\ ~Has(a) => enrolled[a] = 0

-----------------------------------------------------------------------------
(* The store: what a write leaves in the rows. *)

LEMMA PutRow ==
    ASSUME TypeOK, NEW a \in Accounts, NEW r \in Row, Put(a, r)
    PROVE  /\ DOMAIN row' = DOMAIN row \cup {a}
           /\ row'[a] = r
           /\ \A b \in DOMAIN row : b # a => row'[b] = row[b]
           /\ DOMAIN row' \subseteq Accounts
           /\ \A b \in DOMAIN row' : row'[b] \in Row
BY DEF TypeOK, Put

LEMMA NewRowType == NewRow \in Row
BY DEF NewRow, Row, Numbers

LEMMA BumpRow ==
    ASSUME TypeOK, NEW a \in Accounts, BumpSessionEpoch(a)
    PROVE  /\ DOMAIN row' = DOMAIN row
           /\ \A b \in DOMAIN row : row'[b] \in Row
           /\ \A b \in DOMAIN row : b # a => row'[b] = row[b]
           /\ Has(a) => row'[a] = [row[a] EXCEPT !.epoch = @ + 1]
<1>1. CASE Has(a)
  <2> DEFINE r == [row[a] EXCEPT !.epoch = @ + 1]
  <2>1. row[a] \in Row
    BY <1>1 DEF TypeOK, Has
  <2>2. r \in Row
    BY <2>1 DEF Row, Numbers
  <2>3. Put(a, r)
    BY <1>1 DEF BumpSessionEpoch, Update
  <2> HIDE DEF r
  <2>4. DOMAIN row \cup {a} = DOMAIN row
    BY <1>1 DEF Has
  <2>5. /\ DOMAIN row' = DOMAIN row
        /\ \A b \in DOMAIN row : row'[b] \in Row
        /\ \A b \in DOMAIN row : b # a => row'[b] = row[b]
        /\ row'[a] = r
    BY <2>2, <2>3, <2>4, PutRow
  <2> QED
    BY <2>5 DEF r
<1>2. CASE ~Has(a)
  BY <1>2 DEF BumpSessionEpoch, Update, TypeOK, Has
<1> QED
  BY <1>1, <1>2

LEMMA PasswordRow ==
    ASSUME NEW a \in Accounts, SetAdminPassword(a)
    PROVE  BumpSessionEpoch(a)
BY DEF SetAdminPassword, BumpSessionEpoch

LEMMA TOTPRow ==
    ASSUME TypeOK, NEW a \in Accounts, NEW secret \in Nat, NEW on \in BOOLEAN,
           on = TRUE => secret # 0, SetAdminTOTP(a, secret, on)
    PROVE  /\ DOMAIN row' = DOMAIN row
           /\ \A b \in DOMAIN row : row'[b] \in Row
           /\ \A b \in DOMAIN row : b # a => row'[b] = row[b]
           /\ Has(a) => /\ row'[a].secret = secret /\ (row'[a].on <=> on)
                        /\ row'[a].epoch = row[a].epoch
<1>1. CASE Has(a)
  <2> DEFINE r == [row[a] EXCEPT !.secret = secret, !.on = on]
  <2>1. row[a] \in Row
    BY <1>1 DEF TypeOK, Has
  <2>2. r \in Row
    BY <2>1 DEF Row, Numbers
  <2>3. r.secret = secret /\ r.on = on /\ r.epoch = row[a].epoch
    BY <2>1 DEF Row
  <2>6. Put(a, r)
    BY <1>1 DEF SetAdminTOTP, Update
  <2> HIDE DEF r
  <2>4. DOMAIN row \cup {a} = DOMAIN row
    BY <1>1 DEF Has
  <2>5. /\ DOMAIN row' = DOMAIN row
        /\ \A b \in DOMAIN row : row'[b] \in Row
        /\ \A b \in DOMAIN row : b # a => row'[b] = row[b]
        /\ row'[a] = r
    BY <2>2, <2>6, <2>4, PutRow
  <2> QED
    BY <2>3, <2>5
<1>2. CASE ~Has(a)
  BY <1>2 DEF SetAdminTOTP, Update, TypeOK, Has
<1> QED
  BY <1>1, <1>2

-----------------------------------------------------------------------------
(* Types. *)

Rows == DOMAIN row \subseteq Accounts /\ \A a \in DOMAIN row : row[a] \in Row

BaseInv == TypeOK /\ RequestOK /\ PortalStays

LEMMA Names ==
    Boot \in Accounts /\ Portal \in Accounts /\ Admins \subseteq Accounts /\ Portal \notin Admins
BY SessionsNames DEF Accounts

LEMMA IdleType == IdleReq \in Request
BY NewRowType, Names DEF IdleReq, Request, Numbers

\* A step that writes no row.
LEMMA RowsKept ==
    ASSUME TypeOK, PortalStays, UNCHANGED row
    PROVE  Rows' /\ PortalStays'
BY DEF TypeOK, PortalStays, Rows

LEMMA FinishOK ==
    ASSUME BaseInv, NEW w \in Workers, Finish(w)
    PROVE  wk' \in [Workers -> Request] /\ RequestOK'
<1>1. wk' = [wk EXCEPT ![w] = IdleReq] /\ wk \in [Workers -> Request]
  BY DEF Finish, Go, BaseInv, TypeOK
<1>2. wk' \in [Workers -> Request]
  BY <1>1, IdleType
<1>3. wk'[w].op = "none" /\ wk'[w].pc = "idle" /\ \A v \in Workers : v # w => wk'[v] = wk[v]
  BY <1>1 DEF IdleReq
<1> QED
  BY <1>2, <1>3 DEF BaseInv, RequestOK

\* A request goes on: to its next point, with what it has read.
LEMMA GoOK ==
    ASSUME BaseInv, NEW w \in Workers, NEW r \in Request, Go(w, r),
           r.op = wk[w].op, r.who = wk[w].who, wk[w].pc # "idle",
           r.pc = "write" /\ r.op = "verify" => r.seen.secret # 0,
           r.pc = "write" /\ r.op = "setup" => ~r.seen.on
    PROVE  wk' \in [Workers -> Request] /\ RequestOK'
<1>1. wk' = [wk EXCEPT ![w] = r] /\ wk \in [Workers -> Request]
  BY DEF Go, BaseInv, TypeOK
<1>2. wk' \in [Workers -> Request]
  BY <1>1
<1>3. wk'[w] = r /\ \A v \in Workers : v # w => wk'[v] = wk[v]
  BY <1>1
<1> QED
  BY <1>2, <1>3 DEF BaseInv, RequestOK

LEMMA BaseInit == Init => BaseInv
<1> SUFFICES ASSUME Init PROVE BaseInv
  OBVIOUS
<1>1. DOMAIN row = First \cup {Portal} /\ \A a \in DOMAIN row : row[a] = NewRow
  BY DEF Init
<1>2. Rows /\ PortalStays
  BY <1>1, NewRowType, SessionsNames DEF Rows, PortalStays, Accounts
<1>3. wk = [w \in Workers |-> IdleReq] /\ wk \in [Workers -> Request]
  BY IdleType DEF Init
<1>4. RequestOK
  BY <1>3 DEF RequestOK, IdleReq
<1>5. /\ sessions \subseteq Session
      /\ made \in Numbers /\ ops \in Numbers
      /\ gen \in [Accounts -> Numbers] /\ enrolled \in [Accounts -> Numbers]
      /\ causes \subseteq CauseKinds
  BY SessionsNames DEF Init, Session, Numbers, Accounts
<1> QED
  BY <1>2, <1>3, <1>4, <1>5 DEF BaseInv, TypeOK, Rows

\* A request that arrives.
LEMMA BeginBase ==
    ASSUME BaseInv, NEW w \in Workers, NEW op \in Ops, NEW a \in Accounts, Begin(w, op, a)
    PROVE  BaseInv'
<1>1. PICK arg \in Nat, cookie \in Nat :
          wk' = [wk EXCEPT ![w] = [IdleReq EXCEPT !.op = op, !.pc = "read", !.who = a,
                   !.arg = arg, !.cookie = IF Cookies(op, a) = {a} THEN cookie ELSE 0]]
  <2>1. made \in Nat /\ made' \in Nat /\ sessions \subseteq Session
    BY DEF BaseInv, TypeOK, Numbers, Begin
  <2>2. PICK arg \in (CASE op = "setup" -> {made'}
                      [] op \in {"verify", "disable", "login"} -> 0..made
                      [] OTHER -> {0}) :
        \E cookie \in (IF Cookies(op, a) = {} THEN {0}
                      ELSE {s.epoch : s \in {s \in sessions : Honoured(s)
                                                   /\ s.who \in Cookies(op, a)}}) :
            Go(w, [IdleReq EXCEPT !.op = op, !.pc = "read", !.who = a, !.arg = arg,
                                  !.cookie = IF Cookies(op, a) = {a} THEN cookie ELSE 0])
    BY Zenon DEF Begin
  <2>3. arg \in Nat
    BY <2>1, <2>2
  <2>4. PICK cookie \in (IF Cookies(op, a) = {} THEN {0}
                      ELSE {s.epoch : s \in {s \in sessions : Honoured(s)
                                                   /\ s.who \in Cookies(op, a)}}) :
            Go(w, [IdleReq EXCEPT !.op = op, !.pc = "read", !.who = a, !.arg = arg,
                                  !.cookie = IF Cookies(op, a) = {a} THEN cookie ELSE 0])
    BY <2>2
  <2>5. cookie \in Nat
    BY <2>1, <2>4 DEF Session, Numbers
  <2> QED
    BY <2>3, <2>4, <2>5 DEF Go
<1> DEFINE r == [IdleReq EXCEPT !.op = op, !.pc = "read", !.who = a,
                   !.arg = arg, !.cookie = IF Cookies(op, a) = {a} THEN cookie ELSE 0]
<1>2. r \in Request /\ r.op = op /\ r.pc = "read" /\ r.who = a
  BY IdleType, SessionsBounds DEF Request, Numbers, IdleReq
<1>3. wk' = [wk EXCEPT ![w] = r] /\ wk \in [Workers -> Request]
  BY <1>1 DEF BaseInv, TypeOK
<1> HIDE DEF r
<1>4. wk' \in [Workers -> Request] /\ wk'[w] = r /\ \A v \in Workers : v # w => wk'[v] = wk[v]
  BY <1>2, <1>3
<1>5. a \in Target(op)
  BY DEF Begin
<1>6. RequestOK'
  <2>1. op # "none"
    BY SessionsBounds DEF AllOps, AdminOps, PortalOps, CliOps
  <2> QED
    BY <1>2, <1>4, <1>5, <2>1 DEF RequestOK, BaseInv
<1>7. Rows' /\ PortalStays'
  BY RowsKept DEF BaseInv, Begin
<1> QED
  BY <1>4, <1>6, <1>7 DEF BaseInv, TypeOK, Rows, Begin, histVars, Numbers, Session, CauseKinds

\* A request that goes on.
LEMMA HandleBase ==
    ASSUME BaseInv, NEW w \in Workers, Handle(w)
    PROVE  BaseInv'
<1> DEFINE Lists == /\ sessions' \subseteq Session /\ causes' \subseteq CauseKinds
                    /\ gen' \in [Accounts -> Nat] /\ enrolled' \in [Accounts -> Nat]
                    /\ made' \in Nat /\ ops' \in Nat
<1>0. /\ wk[w] \in Request /\ wk[w].who \in Accounts /\ wk[w].seen \in Row
      /\ wk[w].seen.secret \in Nat /\ wk[w].gen \in Nat
      /\ wk[w].op # "none" => wk[w].who \in Target(wk[w].op)
      /\ TypeOK /\ RequestOK /\ PortalStays
      /\ row[Portal] \in Row /\ row[Portal].epoch \in Nat
      /\ gen \in [Accounts -> Nat] /\ enrolled \in [Accounts -> Nat]
      /\ sessions \subseteq Session /\ causes \subseteq CauseKinds
      /\ made \in Nat /\ ops \in Nat
  BY DEF BaseInv, TypeOK, RequestOK, PortalStays, Request, Numbers, Row
<1>n. Boot \in Accounts /\ Portal \in Accounts
  BY Names
<1>f. ASSUME Rows', PortalStays', Finish(w), Lists
      PROVE  BaseInv'
  <2>1. wk' \in [Workers -> Request] /\ RequestOK'
    BY <1>f, FinishOK
  <2> QED
    BY <1>f, <2>1 DEF BaseInv, TypeOK, Rows, Numbers, Session, CauseKinds, Accounts
<1>g. ASSUME Rows', PortalStays', NEW r \in Request, Go(w, r), Lists,
             r.op = wk[w].op, r.who = wk[w].who, wk[w].pc # "idle",
             r.pc = "write" /\ r.op = "verify" => r.seen.secret # 0,
             r.pc = "write" /\ r.op = "setup" => ~r.seen.on
      PROVE  BaseInv'
  <2>1. wk' \in [Workers -> Request] /\ RequestOK'
    BY <1>g, GoOK
  <2> QED
    BY <1>g, <2>1 DEF BaseInv, TypeOK, Rows, Numbers, Session, CauseKinds, Accounts
<1>k. ASSUME UNCHANGED row
      PROVE  Rows' /\ PortalStays'
  BY <1>0, <1>k, RowsKept
<1>b. ASSUME NEW a \in Accounts, BumpSessionEpoch(a)
      PROVE  Rows' /\ PortalStays'
  BY <1>0, <1>b, BumpRow DEF Rows, PortalStays, TypeOK
<1>p. ASSUME NEW a \in Accounts, NEW r \in Row, Put(a, r)
      PROVE  Rows' /\ PortalStays'
  BY <1>0, <1>p, PutRow DEF Rows, PortalStays
<1>t. ASSUME NEW a \in Accounts, NEW secret \in Nat, NEW on \in BOOLEAN, on => secret # 0,
             SetAdminTOTP(a, secret, on)
      PROVE  Rows' /\ PortalStays'
  BY <1>0, <1>t, TOTPRow DEF Rows, PortalStays, TypeOK
<1>c. ASSUME NEW a \in Accounts PROVE Recreated(a) \subseteq CauseKinds
  BY <1>0 DEF Recreated, CauseKinds
<1>r. Raced(w) \subseteq CauseKinds
  BY <1>0 DEF Raced, CauseKinds
<1>1. CASE Login(w)
  <2>1. Lists
    <3>1. CASE sessions' = sessions
      BY <1>0, <1>1, <3>1 DEF Login, histVars
    <3>2. CASE sessions' # sessions
      <4>1. /\ Has(wk[w].who)
            /\ sessions' = sessions \cup {[who |-> wk[w].who, epoch |-> row[wk[w].who].epoch,
                                           gen |-> gen[wk[w].who]]}
        BY <1>1, <3>2 DEF Login
      <4>2. row[wk[w].who] \in Row
        BY <1>0, <4>1 DEF TypeOK, Has
      <4> QED
        BY <1>0, <1>1, <4>1, <4>2 DEF Login, histVars, Session, Row, Numbers
    <3> QED
      BY <3>1, <3>2
  <2> HIDE DEF Lists
  <2> QED
    BY <1>1, <1>f, <1>k, <2>1 DEF Login
<1>2. CASE CreateCheck(w) \/ CountAdmins(w)
  <2>1. Lists
    BY <1>0, <1>2 DEF CreateCheck, CountAdmins, histVars
  <2> HIDE DEF Lists
  <2>2. CASE Finish(w)
    BY <1>2, <1>f, <1>k, <2>1, <2>2 DEF CreateCheck, CountAdmins
  <2>3. CASE ~Finish(w)
    <3> DEFINE r == [wk[w] EXCEPT !.pc = "write"]
    <3>1. Go(w, r) /\ wk[w].pc # "idle" /\ wk[w].op \in {"create", "delete"}
      BY <1>2, <2>3 DEF CreateCheck, CountAdmins, At
    <3>2. r \in Request /\ r.op = wk[w].op /\ r.who = wk[w].who
      BY <1>0 DEF Request
    <3> HIDE DEF r
    <3> QED
      BY <1>2, <1>g, <1>k, <2>1, <3>1, <3>2 DEF CreateCheck, CountAdmins
  <2> QED
    BY <2>2, <2>3
<1>3. CASE CreateAdmin(w)
  <2>1. Lists
    BY <1>0, <1>3, <1>c DEF CreateAdmin
  <2> HIDE DEF Lists
  <2>2. Rows' /\ PortalStays'
    <3>1. CASE Has(wk[w].who)
      BY <1>3, <1>k, <3>1 DEF CreateAdmin
    <3>2. CASE ~Has(wk[w].who)
      BY <1>0, <1>3, <1>p, <3>2, NewRowType DEF CreateAdmin
    <3> QED
      BY <3>1, <3>2
  <2> QED
    BY <1>3, <1>f, <2>1, <2>2 DEF CreateAdmin
<1>4. CASE DeleteAdmin(w)
  <2> DEFINE r == [wk[w] EXCEPT !.pc = "second"]
  <2>1. Lists
    BY <1>0, <1>4 DEF DeleteAdmin, Revoke, CauseKinds
  <2> HIDE DEF Lists
  <2>2. wk[w].who \in Admins /\ wk[w].op = "delete" /\ wk[w].pc = "write"
    BY <1>0, <1>4 DEF DeleteAdmin, At, Target, PortalOps, CliOps
  <2>3. /\ DOMAIN row' = DOMAIN row \ {wk[w].who}
        /\ \A b \in DOMAIN row' : row'[b] = row[b]
    BY <1>4 DEF DeleteAdmin
  <2>4. Rows' /\ PortalStays'
    BY <1>0, <2>2, <2>3, Names DEF Rows, PortalStays, TypeOK
  <2>5. /\ r \in Request /\ r.op = wk[w].op /\ r.who = wk[w].who /\ r.pc = "second"
        /\ Go(w, r)
    BY <1>0, <1>4 DEF Request, DeleteAdmin
  <2> HIDE DEF r
  <2> QED
    BY <1>g, <2>1, <2>2, <2>4, <2>5
<1>5. CASE BumpDeleted(w)
  <2>1. Lists
    BY <1>0, <1>5 DEF BumpDeleted, histVars
  <2> HIDE DEF Lists
  <2> QED
    BY <1>0, <1>5, <1>f, <1>b, <2>1 DEF BumpDeleted
<1>6. CASE ReadAdmin(w)
  <2>1. Lists
    BY <1>0, <1>6 DEF ReadAdmin, histVars
  <2> HIDE DEF Lists
  <2>2. CASE Finish(w)
    BY <1>6, <1>f, <1>k, <2>1, <2>2 DEF ReadAdmin
  <2>3. CASE ~Finish(w)
    <3> DEFINE r == [wk[w] EXCEPT !.pc = "write", !.seen = row[wk[w].who]]
    <3>1. /\ Go(w, r) /\ wk[w].pc = "read" /\ Has(wk[w].who)
          /\ Allowed(wk[w], row[wk[w].who])
      BY <1>6, <2>3 DEF ReadAdmin
    <3>2. row[wk[w].who] \in Row
      BY <1>0, <3>1 DEF TypeOK, Has
    <3>3. r \in Request /\ r.op = wk[w].op /\ r.who = wk[w].who /\ r.seen = row[wk[w].who]
      BY <1>0, <3>2 DEF Request
    <3>4. /\ r.op = "verify" => r.seen.secret # 0
          /\ r.op = "setup" => ~r.seen.on
      BY <3>1, <3>3 DEF Allowed
    <3> HIDE DEF r
    <3> QED
      BY <1>6, <1>g, <1>k, <2>1, <3>1, <3>3, <3>4 DEF ReadAdmin
  <2> QED
    BY <2>2, <2>3
<1>7. CASE ChangePassword(w) \/ LogoutAll(w)
  <2>1. Lists
    BY <1>0, <1>7 DEF ChangePassword, LogoutAll, Revoke
  <2> HIDE DEF Lists
  <2>2. BumpSessionEpoch(wk[w].who)
    BY <1>0, <1>7, PasswordRow DEF ChangePassword, LogoutAll
  <2> QED
    BY <1>0, <1>7, <1>f, <1>b, <2>1, <2>2 DEF ChangePassword, LogoutAll
<1>8. CASE Setup2FA(w)
  <2>1. Lists
    BY <1>0, <1>8, <1>r DEF Setup2FA
  <2> HIDE DEF Lists
  <2>2. wk[w].arg \in Nat
    BY <1>0 DEF Request, Numbers
  <2> QED
    BY <1>0, <1>8, <1>f, <1>t, <2>1, <2>2 DEF Setup2FA
<1>9. CASE Verify2FA(w)
  <2>1. Lists
    BY <1>0, <1>9, <1>r DEF Verify2FA
  <2> HIDE DEF Lists
  <2>2. wk[w].seen.secret # 0
    BY <1>0, <1>9 DEF Verify2FA, At, RequestOK
  <2> QED
    BY <1>0, <1>9, <1>f, <1>t, <2>1, <2>2 DEF Verify2FA
<1>10. CASE Disable2FA(w)
  <2>1. Lists
    BY <1>0, <1>10, <1>r DEF Disable2FA
  <2> HIDE DEF Lists
  <2> QED
    BY <1>0, <1>10, <1>f, <1>t, <2>1 DEF Disable2FA
<1>11. CASE ResetRead(w)
  <2> DEFINE r == [wk[w] EXCEPT !.pc = "write", !.found = Has(Boot)]
  <2>1. Lists
    BY <1>0, <1>11 DEF ResetRead, histVars
  <2> HIDE DEF Lists
  <2>2. Go(w, r) /\ wk[w].pc = "read" /\ wk[w].op \in CliOps
    BY <1>11 DEF ResetRead
  <2>3. r \in Request /\ r.op = wk[w].op /\ r.who = wk[w].who
    <3>1. Has(Boot) \in BOOLEAN
      BY DEF Has
    <3>2. wk[w] \in Request
      BY <1>0
    <3> QED
      BY <3>1, <3>2 DEF Request
  <2> HIDE DEF r
  <2> QED
    BY <1>11, <1>g, <1>k, <2>1, <2>2, <2>3 DEF ResetRead, CliOps
<1>12. CASE ResetWrite(w)
  <2> DEFINE r == [wk[w] EXCEPT !.pc = "second"]
  <2>1. Lists
    BY <1>0, <1>12, <1>n, <1>c DEF ResetWrite, Revoke
  <2> HIDE DEF Lists
  <2>2. Rows' /\ PortalStays'
    <3>1. CASE SetAdminPassword(Boot)
      BY <1>b, <1>n, <3>1, PasswordRow
    <3>2. CASE Put(Boot, NewRow)
      BY <1>p, <1>n, <3>2, NewRowType
    <3>3. CASE UNCHANGED row
      BY <1>k, <3>3
    <3> QED
      BY <1>12, <3>1, <3>2, <3>3 DEF ResetWrite
  <2>3. Finish(w) \/ Go(w, r)
    BY <1>12 DEF ResetWrite, Finish
  <2>4. /\ r \in Request /\ r.op = wk[w].op /\ r.who = wk[w].who /\ r.pc = "second"
        /\ wk[w].pc # "idle"
    BY <1>0, <1>12 DEF Request, ResetWrite
  <2> HIDE DEF r
  <2> QED
    BY <1>f, <1>g, <2>1, <2>2, <2>3, <2>4
<1>13. CASE ResetClear(w)
  <2>1. Lists
    BY <1>0, <1>13, <1>n DEF ResetClear
  <2> HIDE DEF Lists
  <2> QED
    BY <1>n, <1>13, <1>f, <1>t, <2>1 DEF ResetClear
<1>14. CASE SetPortalPassword(w)
  <2> DEFINE r == [wk[w] EXCEPT !.pc = "second"]
             q == [row[Portal] EXCEPT !.pw = (wk[w].op = "portalSet")]
  <2>1. Lists
    BY <1>0, <1>n, <1>14 DEF SetPortalPassword, Revoke
  <2> HIDE DEF Lists
  <2>2. /\ r \in Request /\ r.op = wk[w].op /\ r.who = wk[w].who /\ r.pc = "second"
        /\ Go(w, r) /\ wk[w].pc # "idle"
    BY <1>0, <1>14 DEF Request, SetPortalPassword
  <2>3. q \in Row
    BY <1>0 DEF Row
  <2>4. Put(Portal, q)
    BY <1>14 DEF SetPortalPassword
  <2> HIDE DEF r, q
  <2> QED
    BY <1>g, <1>n, <1>p, <2>1, <2>2, <2>3, <2>4
<1>15. CASE BumpPortal(w)
  <2>1. Lists
    BY <1>0, <1>n, <1>15 DEF BumpPortal, CauseKinds
  <2> HIDE DEF Lists
  <2> QED
    BY <1>15, <1>n, <1>f, <1>b, <1>k, <2>1 DEF BumpPortal
<1>16. CASE ChangePortalPassword(w)
  <2> DEFINE r == [wk[w] EXCEPT !.pc = "second", !.gen = gen[Portal] + 1]
             q == [row[Portal] EXCEPT !.pw = TRUE, !.epoch = @ + 1]
  <2>1. Lists
    BY <1>0, <1>n, <1>16 DEF ChangePortalPassword, Revoke
  <2> HIDE DEF Lists
  <2>2. /\ r \in Request /\ r.op = wk[w].op /\ r.who = wk[w].who /\ r.pc = "second"
        /\ Go(w, r) /\ wk[w].pc # "idle"
    <3>1. gen[Portal] + 1 \in Nat /\ wk[w] \in Request
      BY <1>0, <1>n
    <3>2. wk[w].pc # "idle" /\ Go(w, r)
      BY <1>16 DEF ChangePortalPassword, At
    <3> QED
      BY <3>1, <3>2 DEF Request, Numbers
  <2>3. q \in Row
    <3>1. row[Portal] \in Row
      BY <1>0
    <3>2. /\ q.pw = TRUE /\ q.secret = row[Portal].secret /\ q.on = row[Portal].on
          /\ q.epoch = row[Portal].epoch + 1
      BY <3>1 DEF Row
    <3>3. q \in [pw: BOOLEAN, secret: Nat, on: BOOLEAN, epoch: Nat]
      <4> DEFINE n == row[Portal].epoch + 1
                 t == TRUE
      <4>1. row[Portal] \in [pw: BOOLEAN, secret: Nat, on: BOOLEAN, epoch: Nat]
        BY <3>1 DEF Row, Numbers
      <4>2. n \in Nat /\ t \in BOOLEAN
        BY <4>1
      <4>3. q = [row[Portal] EXCEPT !.pw = t, !.epoch = n]
        OBVIOUS
      <4> HIDE DEF n, t, q
      <4> QED
        BY <4>1, <4>2, <4>3
    <3> HIDE DEF q
    <3> QED
      BY <3>1, <3>2, <3>3 DEF Row, Numbers
  <2>4. Put(Portal, q)
    BY <1>16 DEF ChangePortalPassword
  <2> HIDE DEF r, q
  <2> QED
    BY <1>g, <1>n, <1>p, <2>1, <2>2, <2>3, <2>4
<1>17. CASE Reissue(w)
  <2>1. Lists
    BY <1>0, <1>n, <1>17 DEF Reissue, CauseKinds, Session, Numbers
  <2> HIDE DEF Lists
  <2> QED
    BY <1>17, <1>f, <1>k, <2>1 DEF Reissue
<1>18. CASE StoreFails(w)
  <2>1. Lists
    BY <1>0, <1>18 DEF StoreFails, histVars
  <2> HIDE DEF Lists
  <2> QED
    BY <1>18, <1>f, <1>k, <2>1 DEF StoreFails
<1> QED
  BY <1>1, <1>2, <1>3, <1>4, <1>5, <1>6, <1>7, <1>8, <1>9, <1>10, <1>11, <1>12, <1>13,
     <1>14, <1>15, <1>16, <1>17, <1>18 DEF Handle

\* The panel's end leaves the requests of -reset-admin alone.
LEMMA RestartBase ==
    ASSUME BaseInv, PanelRestart
    PROVE  BaseInv'
<1>1. wk \in [Workers -> Request]
  BY DEF BaseInv, TypeOK
<1>2. /\ wk' \in [Workers -> Request]
      /\ \A w \in Workers : wk'[w] \in {wk[w], IdleReq}
  BY <1>1, IdleType DEF PanelRestart
<1>3. RequestOK'
  BY <1>1, <1>2 DEF BaseInv, RequestOK, IdleReq
<1>4. Rows' /\ PortalStays'
  <2>1. CASE Has(Boot)
    BY <2>1, RowsKept DEF BaseInv, PanelRestart
  <2>2. CASE ~Has(Boot)
    BY <2>2, PutRow, NewRowType, Names DEF BaseInv, PanelRestart, Rows, PortalStays
  <2> QED
    BY <2>1, <2>2
<1>5. causes' \subseteq CauseKinds
  <2>1. Recreated(Boot) \subseteq CauseKinds /\ causes \subseteq CauseKinds
    BY Names DEF BaseInv, TypeOK, Recreated, CauseKinds
  <2>2. \A w \in Workers : <<"unbumped", wk[w].who>> \in CauseKinds
    BY <1>1 DEF CauseKinds, Request
  <2> QED
    BY <2>1, <2>2 DEF PanelRestart
<1> QED
  BY <1>2, <1>3, <1>4, <1>5
     DEF BaseInv, TypeOK, PanelRestart, Rows, Numbers, Session, Accounts

LEMMA BaseNext ==
    ASSUME BaseInv, [Next]_vars
    PROVE  BaseInv'
<1>1. CASE UNCHANGED vars
  BY <1>1 DEF vars, histVars, BaseInv, TypeOK, RequestOK, PortalStays, Session, CauseKinds
<1> QED
  BY <1>1, BeginBase, HandleBase, RestartBase DEF Next

LEMMA BaseAlways == Spec => []BaseInv
BY BaseInit, BaseNext, PTL DEF Spec

\* Every stored row is well formed, and two-factor sign-in is never on without a secret
\* (store.go scanAdmin, twofa.go).
THEOREM TypeCorrect == Spec => []TypeOK
<1>1. BaseInv => TypeOK
  BY DEF BaseInv
<1> QED
  BY <1>1, BaseAlways, PTL

-----------------------------------------------------------------------------
(* What steps have in common. *)

\* A worker changes no request but its own.
LEMMA OwnRequest ==
    ASSUME BaseInv, NEW w \in Workers, Handle(w)
    PROVE  \A v \in Workers : v # w => wk'[v] = wk[v]
<1>1. wk \in [Workers -> Request]
  BY DEF BaseInv, TypeOK
<1>2. \E r : wk' = [wk EXCEPT ![w] = r]
  <2>1. CASE Login(w) \/ CreateCheck(w) \/ CreateAdmin(w) \/ CountAdmins(w) \/ DeleteAdmin(w)
             \/ BumpDeleted(w)
    BY <2>1 DEF Login, CreateCheck, CreateAdmin, CountAdmins, DeleteAdmin, BumpDeleted, Finish, Go
  <2>2. CASE ReadAdmin(w) \/ ChangePassword(w) \/ LogoutAll(w) \/ Setup2FA(w) \/ Verify2FA(w)
             \/ Disable2FA(w)
    BY <2>2 DEF ReadAdmin, ChangePassword, LogoutAll, Setup2FA, Verify2FA, Disable2FA, Finish, Go
  <2>3. CASE ResetRead(w) \/ ResetWrite(w) \/ ResetClear(w) \/ SetPortalPassword(w)
             \/ BumpPortal(w) \/ ChangePortalPassword(w) \/ Reissue(w) \/ StoreFails(w)
    BY <2>3 DEF ResetRead, ResetWrite, ResetClear, SetPortalPassword, BumpPortal,
                ChangePortalPassword, Reissue, StoreFails, Finish, Go
  <2> QED
    BY <2>1, <2>2, <2>3 DEF Handle
<1> QED
  BY <1>1, <1>2

LEMMA OwnRequestBegin ==
    ASSUME BaseInv, NEW w \in Workers, NEW op \in Ops, NEW a \in Accounts, Begin(w, op, a)
    PROVE  wk'[w].pc = "read" /\ \A v \in Workers : v # w => wk'[v] = wk[v]
<1>1. wk \in [Workers -> Request]
  BY DEF BaseInv, TypeOK
<1>2. PICK arg, cookie : Go(w, [IdleReq EXCEPT !.op = op, !.pc = "read", !.who = a, !.arg = arg,
                                  !.cookie = IF Cookies(op, a) = {a} THEN cookie ELSE 0])
  BY Zenon DEF Begin
<1> QED
  BY <1>1, <1>2 DEF Go, IdleReq

\* What is excused stays excused.
LEMMA CausesGrow ==
    ASSUME BaseInv, Next
    PROVE  causes \subseteq causes'
<1>1. ASSUME NEW w \in Workers, Handle(w) PROVE causes \subseteq causes'
  <2>1. CASE Login(w) \/ CreateCheck(w) \/ CreateAdmin(w) \/ CountAdmins(w) \/ DeleteAdmin(w)
             \/ BumpDeleted(w) \/ ReadAdmin(w) \/ ChangePassword(w) \/ LogoutAll(w)
    BY <2>1 DEF Login, CreateCheck, CreateAdmin, CountAdmins, DeleteAdmin, BumpDeleted,
                ReadAdmin, ChangePassword, LogoutAll, histVars, Recreated
  <2>2. CASE Setup2FA(w) \/ Verify2FA(w) \/ Disable2FA(w) \/ ResetRead(w) \/ ResetWrite(w)
             \/ ResetClear(w)
    BY <2>2 DEF Setup2FA, Verify2FA, Disable2FA, ResetRead, ResetWrite, ResetClear, histVars,
                Raced, Recreated
  <2>3. CASE SetPortalPassword(w) \/ BumpPortal(w) \/ ChangePortalPassword(w) \/ Reissue(w)
             \/ StoreFails(w)
    BY <2>3 DEF SetPortalPassword, BumpPortal, ChangePortalPassword, Reissue, StoreFails, histVars
  <2> QED
    BY <1>1, <2>1, <2>2, <2>3 DEF Handle
<1>2. ASSUME NEW w \in Workers, NEW op \in Ops, NEW a \in Accounts, Begin(w, op, a)
      PROVE  causes \subseteq causes'
  BY <1>2 DEF Begin, histVars
<1>3. ASSUME PanelRestart PROVE causes \subseteq causes'
  BY <1>3 DEF PanelRestart, Recreated
<1> QED
  BY <1>1, <1>2, <1>3 DEF Next

\* Only DeleteAdmin takes a row away.
LEMMA RowsStay ==
    ASSUME BaseInv, NEW w \in Workers, Handle(w), ~DeleteAdmin(w)
    PROVE  DOMAIN row \subseteq DOMAIN row'
<1>0. /\ wk[w] \in Request /\ wk[w].who \in Accounts /\ wk[w].arg \in Nat
      /\ wk[w].seen.secret \in Nat /\ Boot \in Accounts /\ Portal \in Accounts
  BY Names DEF BaseInv, TypeOK, Request, Row, Numbers
<1>1. ASSUME NEW a, NEW r, Put(a, r) PROVE DOMAIN row \subseteq DOMAIN row'
  BY <1>1 DEF Put
<1>2. ASSUME NEW a, NEW r, Update(a, r) PROVE DOMAIN row \subseteq DOMAIN row'
  BY <1>1, <1>2 DEF Update
<1>3. CASE Login(w) \/ CreateCheck(w) \/ CreateAdmin(w) \/ CountAdmins(w) \/ ReadAdmin(w)
           \/ ResetRead(w) \/ Reissue(w) \/ StoreFails(w)
  BY <1>1, <1>3 DEF Login, CreateCheck, CreateAdmin, CountAdmins, ReadAdmin, ResetRead, Reissue,
                    StoreFails
<1>4. CASE BumpDeleted(w) \/ ChangePassword(w) \/ LogoutAll(w) \/ ResetWrite(w) \/ BumpPortal(w)
           \/ SetPortalPassword(w) \/ ChangePortalPassword(w)
  BY <1>1, <1>2, <1>4 DEF BumpDeleted, ChangePassword, LogoutAll, ResetWrite, BumpPortal,
      SetPortalPassword, ChangePortalPassword, SetAdminPassword, BumpSessionEpoch
<1>5. CASE Setup2FA(w) \/ Verify2FA(w) \/ Disable2FA(w) \/ ResetClear(w)
  BY <1>2, <1>5 DEF Setup2FA, Verify2FA, Disable2FA, ResetClear, SetAdminTOTP
<1> QED
  BY <1>3, <1>4, <1>5 DEF Handle

-----------------------------------------------------------------------------
(* Somebody can administer the panel. *)

\* A step that deletes nobody and brings no deletion past its count.
LEMMA AdminsFrame ==
    ASSUME AdminsLeft, DOMAIN row \subseteq DOMAIN row', causes \subseteq causes',
           \A w \in Workers : At(w, "delete", "write")' => At(w, "delete", "write")
    PROVE  AdminsLeft'
<1> SUFFICES ASSUME NoOverlap' PROVE /\ Administrators' # {}
                                     /\ \A w \in Workers : At(w, "delete", "write")' =>
                                           \E a, b \in Administrators' : a # b
  BY DEF AdminsLeft
<1>1. NoOverlap /\ Administrators \subseteq Administrators'
  BY DEF NoOverlap, Excused, Administrators
<1> QED
  BY <1>1 DEF AdminsLeft

\* More than one admin is two of them.
LEMMA TwoOfThem ==
    ASSUME NEW S, S # {}, ~(Cardinality(S) <= 1)
    PROVE  \E a, b \in S : a # b
<1>1. PICK a \in S : TRUE
  OBVIOUS
<1>2. Cardinality({a}) = 1
  BY FS_Singleton
<1>3. ASSUME S = {a} PROVE FALSE
  <2>1. Cardinality(S) = 1
    BY <1>2, <1>3
  <2> QED
    BY <2>1
<1> QED
  BY <1>1, <1>3

LEMMA AdminsHandle ==
    ASSUME BaseInv, BaseInv', AdminsLeft, NEW w \in Workers, Handle(w)
    PROVE  AdminsLeft'
<1>0. /\ causes \subseteq causes' /\ wk \in [Workers -> Request]
      /\ \A v \in Workers : v # w => wk'[v] = wk[v]
  <2>1. Next
    BY Zenon DEF Next
  <2> QED
    BY <2>1, CausesGrow, OwnRequest DEF BaseInv, TypeOK
<1>1. CASE CountAdmins(w)
  <2>1. UNCHANGED <<row, causes>>
    BY <1>1 DEF CountAdmins, histVars
  <2>2. CASE Finish(w)
    <3>1. wk'[w].op = "none"
      BY <1>0, <2>2 DEF Finish, Go, IdleReq
    <3> QED
      BY <1>0, <2>1, <3>1, AdminsFrame DEF At
  <2>3. CASE ~Finish(w)
    <3>1. ~(Cardinality(Administrators) <= 1)
      BY <1>1, <2>3 DEF CountAdmins, Administrators
    <3>2. ASSUME NoOverlap' PROVE Administrators' # {} /\ \E a, b \in Administrators' : a # b
      <4>1. Administrators # {} /\ Administrators' = Administrators
        BY <2>1, <3>2 DEF NoOverlap, Excused, AdminsLeft, Administrators
      <4> QED
        BY <3>1, <4>1, TwoOfThem
    <3> QED
      BY <3>2 DEF AdminsLeft
  <2> QED
    BY <2>2, <2>3
<1>2. CASE DeleteAdmin(w)
  <2>1. wk[w].who \in Admins /\ At(w, "delete", "write")
    BY <1>2 DEF DeleteAdmin, At, BaseInv, RequestOK, Target, PortalOps, CliOps
  <2>2. DOMAIN row' = DOMAIN row \ {wk[w].who}
    BY <1>2 DEF DeleteAdmin
  <2>3. wk'[w].pc = "second"
    BY <1>0, <1>2 DEF DeleteAdmin, Go, Request
  <2>4. ASSUME NoOverlap' PROVE NoOverlap /\ \A v \in Workers : ~At(v, "delete", "write")'
    <3>1. \A a \in Admins : <<"overlap", a>> \notin causes'
      BY <2>4 DEF NoOverlap, Excused
    <3>2. NoOverlap
      BY <1>0, <3>1 DEF NoOverlap, Excused
    <3>3. ~\E v \in Workers \ {w} : wk[v].op = "delete" /\ wk[v].pc = "write"
      BY <1>2, <2>1, <3>1 DEF DeleteAdmin
    <3> QED
      BY <1>0, <2>3, <3>2, <3>3 DEF At
  <2>5. ASSUME NoOverlap' PROVE Administrators' # {}
    <3>1. PICK a \in Administrators, b \in Administrators : a # b
      BY <2>1, <2>4, <2>5 DEF AdminsLeft
    <3> QED
      BY <2>2, <3>1 DEF Administrators
  <2> QED
    BY <2>4, <2>5 DEF AdminsLeft
<1>3. CASE ~CountAdmins(w) /\ ~DeleteAdmin(w)
  <2>1. DOMAIN row \subseteq DOMAIN row'
    BY <1>3, RowsStay
  <2>2. ~At(w, "delete", "write")'
    <3> DEFINE Other(r) == r.op # "delete" \/ r.pc # "write"
    <3>1. Other(IdleReq) /\ \A r \in Request : Other([r EXCEPT !.pc = "second"])
      BY DEF IdleReq, Request
    <3>2. ASSUME Finish(w) PROVE Other(wk'[w])
      BY <1>0, <3>1, <3>2 DEF Finish, Go
    <3>3. ASSUME Go(w, [wk[w] EXCEPT !.pc = "second"]) PROVE Other(wk'[w])
      BY <1>0, <3>3 DEF Go, Request
    <3>4. CASE CreateCheck(w)
      <4>1. wk[w].op = "create" /\ wk[w] \in Request
        BY <1>0, <3>4 DEF CreateCheck, At
      <4>2. CASE Go(w, [wk[w] EXCEPT !.pc = "write"])
        BY <1>0, <4>1, <4>2 DEF Go, At, Request
      <4> QED
        BY <3>2, <3>4, <4>2 DEF CreateCheck, At
    <3>5. CASE ReadAdmin(w)
      <4>1. wk[w].op # "delete" /\ wk[w] \in Request
        BY <1>0, <3>5 DEF ReadAdmin
      <4>2. CASE Go(w, [wk[w] EXCEPT !.pc = "write", !.seen = row[wk[w].who]])
        BY <1>0, <4>1, <4>2 DEF Go, At, Request
      <4> QED
        BY <3>2, <3>5, <4>2 DEF ReadAdmin, At
    <3>6. CASE ResetRead(w)
      BY <1>0, <3>6 DEF ResetRead, CliOps, Go, At, Request
    <3>7. CASE ResetWrite(w)
      BY <3>2, <3>3, <3>7 DEF ResetWrite, At, Finish
    <3>8. CASE ChangePortalPassword(w)
      BY <1>0, <3>8 DEF ChangePortalPassword, Go, At, Request
    <3>9. CASE SetPortalPassword(w)
      BY <3>3, <3>9 DEF SetPortalPassword, At
    <3> HIDE DEF Other
    <3>10. CASE Finish(w)
      BY <3>2, <3>10 DEF At, Other
    <3> QED
      BY <1>3, <3>4, <3>5, <3>6, <3>7, <3>8, <3>9, <3>10
         DEF Handle, Login, CreateAdmin, BumpDeleted, ChangePassword, LogoutAll, Setup2FA,
             Verify2FA, Disable2FA, ResetClear, BumpPortal, Reissue, StoreFails
  <2> QED
    BY <1>0, <2>1, <2>2, AdminsFrame DEF At
<1> QED
  BY <1>1, <1>2, <1>3

LEMMA AdminsNext ==
    ASSUME BaseInv, BaseInv', AdminsLeft, [Next]_vars
    PROVE  AdminsLeft'
<1>1. CASE UNCHANGED vars
  BY <1>1 DEF vars, histVars, AdminsLeft, NoOverlap, Excused, Administrators, At
<1>2. ASSUME NEW w \in Workers, NEW op \in Ops, NEW a \in Accounts, Begin(w, op, a)
      PROVE  AdminsLeft'
  BY <1>2, AdminsFrame, OwnRequestBegin DEF Begin, histVars, At
<1>3. CASE PanelRestart
  <2>1. \A w \in Workers : At(w, "delete", "write")' => At(w, "delete", "write")
    BY <1>3 DEF PanelRestart, At, IdleReq
  <2>2. DOMAIN row \subseteq DOMAIN row'
    BY <1>3 DEF PanelRestart, Put
  <2>3. causes \subseteq causes'
    BY <1>3, CausesGrow DEF Next
  <2> QED
    BY <2>1, <2>2, <2>3, AdminsFrame
<1> QED
  BY <1>1, <1>2, <1>3, AdminsHandle DEF Next

LEMMA AdminsInit == Init => AdminsLeft
<1> SUFFICES ASSUME Init PROVE AdminsLeft
  OBVIOUS
<1>1. Administrators # {}
  BY SessionsNames DEF Init, Administrators
<1>2. \A w \in Workers : ~At(w, "delete", "write")
  BY DEF Init, At, IdleReq
<1> QED
  BY <1>1, <1>2 DEF AdminsLeft

\* "cannot delete the last admin" (admins.go:69), for any number of admins and requests:
\* unless two deletions were between their count and their delete, somebody is left.
THEOREM LastAdminStays == Spec => []SomeAdmin
<1>1. AdminsLeft => SomeAdmin
  BY DEF AdminsLeft, SomeAdmin, NoOverlap, Administrators
<1> QED
  BY <1>1, AdminsInit, AdminsNext, BaseAlways, PTL DEF Spec

-----------------------------------------------------------------------------
(* A session outlives no revocation. *)

Unbumped(w) == wk[w].op \in {"portalSet", "portalClear"} /\ wk[w].pc = "second"

\* What SessionsInStep says of one session.
InStep(s) ==
    Has(s.who) /\ ~Excused({"recreated", "reissued", "unbumped"}, s.who) =>
        /\ s.epoch <= row[s.who].epoch
        /\ s.epoch = row[s.who].epoch =>
              \/ s.gen = gen[s.who]
              \/ s.who = Portal /\ \E w \in Workers : Unbumped(w)

LEMMA InStepAll == SessionsInStep <=> \A s \in sessions : InStep(s)
BY DEF SessionsInStep, InStep, Unbumped

LEMMA InStepAllNext == SessionsInStep' <=> \A s \in sessions' : InStep(s)'
BY DEF SessionsInStep, InStep, Unbumped

\* The row keeps its epoch and the account its count of revocations, and no bump is
\* given up.
LEMMA InStepKept ==
    ASSUME NEW s, InStep(s), causes \subseteq causes', s.who \in DOMAIN row' => Has(s.who),
           s.who \in DOMAIN row' => row'[s.who].epoch = row[s.who].epoch,
           gen'[s.who] = gen[s.who],
           \A w \in Workers : Unbumped(w) => Unbumped(w)' \/ <<"unbumped", Portal>> \in causes'
    PROVE  InStep(s)'
BY DEF InStep, Excused, Has, Unbumped

\* The epoch is bumped: no session of before is of the new one.
LEMMA InStepBumped ==
    ASSUME NEW s \in Session, InStep(s), BaseInv, causes \subseteq causes',
           s.who \in DOMAIN row' => Has(s.who),
           s.who \in DOMAIN row' => row'[s.who].epoch = row[s.who].epoch + 1
    PROVE  InStep(s)'
<1> SUFFICES ASSUME s.who \in DOMAIN row', ~Excused({"recreated", "reissued", "unbumped"}, s.who)'
             PROVE  s.epoch <= row'[s.who].epoch /\ s.epoch # row'[s.who].epoch
  BY DEF InStep, Has
<1>1. s.epoch \in Nat /\ row[s.who].epoch \in Nat
  BY DEF BaseInv, TypeOK, Session, Numbers, Row, Has
<1>2. s.epoch <= row[s.who].epoch
  BY DEF InStep, Excused
<1> QED
  BY <1>1, <1>2

\* The step of one session under a step that bumps account a's epoch.
LEMMA InStepBump ==
    ASSUME BaseInv, NEW s \in Session, InStep(s), causes \subseteq causes', NEW a \in Accounts,
           BumpSessionEpoch(a), \A b \in Accounts : b # a => gen'[b] = gen[b],
           \A w \in Workers : Unbumped(w) => a = Portal \/ Unbumped(w)'
    PROVE  InStep(s)'
<1>1. s.who \in Accounts /\ TypeOK
  BY DEF Session, BaseInv
<1>2. /\ DOMAIN row' = DOMAIN row
      /\ \A b \in DOMAIN row : b # a => row'[b] = row[b]
      /\ Has(a) => row'[a] = [row[a] EXCEPT !.epoch = @ + 1]
  BY <1>1, BumpRow
<1>3. CASE s.who = a
  <2>1. s.who \in DOMAIN row' => row'[s.who].epoch = row[s.who].epoch + 1
    BY <1>1, <1>2, <1>3 DEF Has, TypeOK, Row
  <2> QED
    BY <1>2, <2>1, InStepBumped DEF Has
<1>4. CASE s.who # a
  <2>1. CASE a = Portal
    BY <1>1, <1>2, <1>4, <2>1 DEF InStep, Has, Excused
  <2>2. CASE a # Portal
    BY <1>1, <1>2, <1>4, <2>2, InStepKept DEF Has
  <2> QED
    BY <2>1, <2>2
<1> QED
  BY <1>3, <1>4

\* A row that is made anew: the sessions that its name has are excused.
LEMMA InStepNewRow ==
    ASSUME BaseInv, NEW s \in sessions, InStep(s), NEW a \in Accounts, ~Has(a), Put(a, NewRow),
           Recreated(a) \subseteq causes', causes \subseteq causes', UNCHANGED gen,
           \A w \in Workers : Unbumped(w) => Unbumped(w)' \/ <<"unbumped", Portal>> \in causes'
    PROVE  InStep(s)'
<1>1. CASE s.who = a
  <2>1. <<"recreated", a>> \in causes'
    BY <1>1 DEF Recreated
  <2> QED
    BY <1>1, <2>1 DEF InStep, Excused
<1>2. CASE s.who # a
  <2>1. TypeOK
    BY DEF BaseInv
  <2>2. DOMAIN row' = DOMAIN row \cup {a} /\ \A b \in DOMAIN row : b # a => row'[b] = row[b]
    BY <2>1, PutRow, NewRowType
  <2> QED
    BY <1>2, <2>2, InStepKept DEF Has
<1> QED
  BY <1>1, <1>2

LEMMA SessionsHandle ==
    ASSUME BaseInv, BaseInv', SessionsInStep, NEW w \in Workers, Handle(w)
    PROVE  SessionsInStep'
<1>0. /\ causes \subseteq causes' /\ wk \in [Workers -> Request]
      /\ \A v \in Workers : v # w => wk'[v] = wk[v]
      /\ sessions \subseteq Session /\ wk[w].who \in Accounts
      /\ TypeOK /\ gen \in [Accounts -> Nat]
      /\ \A s \in sessions : InStep(s)
  <2>1. Next
    BY Zenon DEF Next
  <2>2. wk \in [Workers -> Request] /\ wk[w].who \in Accounts
    BY DEF BaseInv, TypeOK, Request
  <2> QED
    BY <2>1, <2>2, CausesGrow, OwnRequest, InStepAll DEF BaseInv, TypeOK, Numbers
<1>n. Boot \in Accounts /\ Portal \in Accounts /\ Boot # Portal
  BY Names, SessionsNames
<1>u. \A v \in Workers : Unbumped(v) => v = w \/ Unbumped(v)'
  BY <1>0 DEF Unbumped
<1>w. \A v \in Workers : Unbumped(v) => (v = w /\ Unbumped(w)) \/ Unbumped(v)'
  BY <1>u
<1>1. CASE /\ UNCHANGED <<row, gen, sessions>>
           /\ ~Unbumped(w)
  <2>1. \A s \in sessions : InStep(s)'
    BY <1>0, <1>1, <1>u, InStepKept DEF Has
  <2> QED
    BY <1>1, <2>1, InStepAllNext
<1>2. CASE Login(w)
  <2>1. ~Unbumped(w) /\ UNCHANGED <<row, gen>>
    BY <1>2 DEF Login, At, Unbumped, histVars
  <2>2. \A s \in sessions : InStep(s)'
    BY <1>0, <1>u, <2>1, InStepKept DEF Has
  <2>3. ASSUME NEW s \in sessions', s \notin sessions PROVE InStep(s)'
    <3>1. /\ Has(wk[w].who)
          /\ s = [who |-> wk[w].who, epoch |-> row[wk[w].who].epoch, gen |-> gen[wk[w].who]]
      BY <1>2, <2>3 DEF Login
    <3>2. row[wk[w].who].epoch \in Nat
      BY <1>0, <3>1 DEF TypeOK, Has, Row, Numbers
    <3> QED
      BY <2>1, <3>1, <3>2 DEF InStep
  <2> QED
    BY <2>2, <2>3, InStepAllNext
<1>3. CASE CreateCheck(w) \/ CountAdmins(w) \/ ReadAdmin(w) \/ ResetRead(w) \/ StoreFails(w)
  BY <1>1, <1>3 DEF CreateCheck, CountAdmins, ReadAdmin, ResetRead, StoreFails, At, CliOps,
                    Unbumped, histVars
<1>4. CASE CreateAdmin(w)
  <2>1. ~Unbumped(w) /\ UNCHANGED <<gen, sessions>>
    BY <1>4 DEF CreateAdmin, At, Unbumped
  <2>2. CASE Has(wk[w].who)
    BY <1>1, <1>4, <2>1, <2>2 DEF CreateAdmin
  <2>3. CASE ~Has(wk[w].who)
    <3>1. Put(wk[w].who, NewRow) /\ causes' = Recreated(wk[w].who)
      BY <1>4, <2>3 DEF CreateAdmin
    <3>2. \A s \in sessions : InStep(s)'
      BY <1>0, <1>u, <2>1, <2>3, <3>1, InStepNewRow
    <3> QED
      BY <2>1, <3>2, InStepAllNext
  <2> QED
    BY <2>2, <2>3
<1>5. CASE DeleteAdmin(w)
  <2>1. ~Unbumped(w) /\ UNCHANGED sessions /\ wk[w].who # Portal
    BY <1>5, Names DEF DeleteAdmin, At, Unbumped, BaseInv, RequestOK, Target, PortalOps, CliOps
  <2>2. /\ DOMAIN row' = DOMAIN row \ {wk[w].who}
        /\ \A b \in DOMAIN row' : row'[b] = row[b]
    BY <1>5 DEF DeleteAdmin
  <2>3. \A b \in Accounts : b # wk[w].who => gen'[b] = gen[b]
    BY <1>0, <1>5 DEF DeleteAdmin, Revoke
  <2>4. ASSUME NEW s \in sessions PROVE InStep(s)'
    <3>1. CASE s.who = wk[w].who
      BY <2>2, <3>1 DEF InStep, Has
    <3>2. CASE s.who # wk[w].who
      <4>1. s.who \in Accounts
        BY <1>0 DEF Session
      <4> QED
        BY <1>0, <1>u, <2>1, <2>2, <2>3, <3>2, <4>1, InStepKept DEF Has
    <3> QED
      BY <3>1, <3>2
  <2> QED
    BY <2>1, <2>4, InStepAllNext
<1>6. CASE BumpDeleted(w) \/ ChangePassword(w) \/ LogoutAll(w)
  <2>1. ~Unbumped(w) /\ UNCHANGED sessions
    BY <1>6 DEF BumpDeleted, ChangePassword, LogoutAll, At, Unbumped
  <2>2. \A b \in Accounts : b # wk[w].who => gen'[b] = gen[b]
    BY <1>0, <1>6 DEF BumpDeleted, ChangePassword, LogoutAll, Revoke, histVars
  <2>3. BumpSessionEpoch(wk[w].who)
    BY <1>0, <1>6, PasswordRow DEF BumpDeleted, ChangePassword, LogoutAll
  <2>4. \A s \in sessions : InStep(s)'
    BY <1>0, <1>u, <2>1, <2>2, <2>3, InStepBump
  <2> QED
    BY <2>1, <2>4, InStepAllNext
<1>7. CASE Setup2FA(w) \/ Verify2FA(w) \/ Disable2FA(w) \/ ResetClear(w)
  <2>1. ~Unbumped(w) /\ UNCHANGED <<gen, sessions>>
    BY <1>7 DEF Setup2FA, Verify2FA, Disable2FA, ResetClear, At, Unbumped
  <2>2. PICK a \in Accounts, secret \in Nat, on \in BOOLEAN :
            SetAdminTOTP(a, secret, on) /\ (on = TRUE => secret # 0)
    <3>1. wk[w].arg \in Nat /\ wk[w].seen.secret \in Nat
      BY <1>0 DEF Request, Row, Numbers
    <3>2. CASE Setup2FA(w)
      BY <1>0, <3>1, <3>2 DEF Setup2FA
    <3>3. CASE Verify2FA(w)
      BY <1>0, <3>1, <3>3 DEF Verify2FA, At, BaseInv, RequestOK
    <3>4. CASE Disable2FA(w)
      BY <1>0, <3>4 DEF Disable2FA
    <3>5. CASE ResetClear(w)
      BY <1>n, <3>5 DEF ResetClear
    <3> QED
      BY <1>7, <3>2, <3>3, <3>4, <3>5
  <2>3. /\ DOMAIN row' = DOMAIN row
        /\ \A b \in DOMAIN row : b # a => row'[b] = row[b]
        /\ Has(a) => row'[a].epoch = row[a].epoch
    BY <1>0, <2>2, TOTPRow
  <2>4. \A b \in DOMAIN row : row'[b].epoch = row[b].epoch
    BY <1>0, <2>3 DEF Has, TypeOK, Row
  <2>5. \A s \in sessions : InStep(s)'
    BY <1>0, <1>u, <2>1, <2>3, <2>4, InStepKept DEF Has
  <2> QED
    BY <2>1, <2>5, InStepAllNext
<1>8. CASE ResetWrite(w)
  <2>1. ~Unbumped(w) /\ UNCHANGED sessions
    BY <1>8 DEF ResetWrite, CliOps, Unbumped
  <2>2. CASE SetAdminPassword(Boot) /\ Revoke(Boot)
    <3>1. BumpSessionEpoch(Boot) /\ \A b \in Accounts : b # Boot => gen'[b] = gen[b]
      BY <1>0, <1>n, <2>2, PasswordRow DEF Revoke
    <3>2. \A s \in sessions : InStep(s)'
      BY <1>0, <1>n, <1>u, <2>1, <3>1, InStepBump
    <3> QED
      BY <2>1, <3>2, InStepAllNext
  <2>3. CASE ~Has(Boot) /\ Put(Boot, NewRow) /\ causes' = Recreated(Boot) /\ UNCHANGED gen
    <3>1. \A s \in sessions : InStep(s)'
      BY <1>0, <1>n, <1>u, <2>1, <2>3, InStepNewRow
    <3> QED
      BY <2>1, <3>1, InStepAllNext
  <2>4. CASE UNCHANGED <<row, gen>>
    BY <1>1, <2>1, <2>4
  <2> QED
    BY <1>8, <2>2, <2>3, <2>4 DEF ResetWrite
<1>9. CASE SetPortalPassword(w)
  <2> DEFINE q == [row[Portal] EXCEPT !.pw = (wk[w].op = "portalSet")]
  <2>1. Unbumped(w)' /\ ~Unbumped(w) /\ UNCHANGED sessions
    BY <1>0, <1>9 DEF SetPortalPassword, Unbumped, Go, Request
  <2>2. Has(Portal) /\ row[Portal] \in Row
    BY DEF BaseInv, TypeOK, PortalStays, Has
  <2>3. q \in Row /\ q.epoch = row[Portal].epoch
    BY <2>2 DEF Row
  <2>4. Put(Portal, q)
    BY <1>9 DEF SetPortalPassword
  <2> HIDE DEF q
  <2>5. DOMAIN row' = DOMAIN row /\ \A b \in DOMAIN row : row'[b].epoch = row[b].epoch
    <3>1. /\ DOMAIN row' = DOMAIN row \cup {Portal} /\ row'[Portal] = q
          /\ \A b \in DOMAIN row : b # Portal => row'[b] = row[b]
      BY <1>0, <1>n, <2>3, <2>4, PutRow
    <3> QED
      BY <2>2, <2>3, <3>1 DEF Has
  <2>6. \A b \in Accounts : b # Portal => gen'[b] = gen[b]
    BY <1>0, <1>9 DEF SetPortalPassword, Revoke
  <2>7. ASSUME NEW s \in sessions PROVE InStep(s)'
    <3>1. s.who \in Accounts /\ InStep(s)
      BY <1>0 DEF Session
    <3>2. CASE s.who = Portal
      BY <1>0, <2>1, <2>5, <3>1, <3>2 DEF InStep, Excused, Has
    <3>3. CASE s.who # Portal
      BY <1>0, <1>u, <2>1, <2>5, <2>6, <3>1, <3>3, InStepKept DEF Has
    <3> QED
      BY <3>2, <3>3
  <2> QED
    BY <2>1, <2>7, InStepAllNext
<1>10. CASE BumpPortal(w)
  <2>1. UNCHANGED <<gen, sessions>>
    BY <1>10 DEF BumpPortal
  <2>2. CASE BumpSessionEpoch(Portal)
    <3>1. \A s \in sessions : InStep(s)'
      BY <1>0, <1>n, <2>1, <2>2, InStepBump
    <3> QED
      BY <2>1, <3>1, InStepAllNext
  <2>3. CASE <<"unbumped", Portal>> \in causes' /\ UNCHANGED row
    <3>1. \A s \in sessions : InStep(s)'
      BY <1>0, <2>1, <2>3, InStepKept DEF Has
    <3> QED
      BY <2>1, <3>1, InStepAllNext
  <2> QED
    BY <1>10, <2>2, <2>3 DEF BumpPortal
<1>11. CASE ChangePortalPassword(w)
  <2> DEFINE q == [row[Portal] EXCEPT !.pw = TRUE, !.epoch = @ + 1]
  <2>1. ~Unbumped(w) /\ UNCHANGED sessions
    BY <1>11 DEF ChangePortalPassword, At, Unbumped
  <2>2. Has(Portal) /\ row[Portal] \in Row
    BY DEF BaseInv, TypeOK, PortalStays, Has
  <2>3. row' = [b \in DOMAIN row \cup {Portal} |-> IF b = Portal THEN q ELSE row[b]]
    BY <1>11 DEF ChangePortalPassword, Put
  <2>4. q.epoch = row[Portal].epoch + 1
    BY <2>2 DEF Row
  <2> HIDE DEF q
  <2>5. /\ DOMAIN row' = DOMAIN row /\ row'[Portal].epoch = row[Portal].epoch + 1
        /\ \A b \in DOMAIN row : b # Portal => row'[b] = row[b]
    BY <2>2, <2>3, <2>4 DEF Has
  <2>6. \A b \in Accounts : b # Portal => gen'[b] = gen[b]
    BY <1>0, <1>11 DEF ChangePortalPassword, Revoke
  <2>7. ASSUME NEW s \in sessions PROVE InStep(s)'
    <3>1. s.who \in Accounts /\ InStep(s) /\ s \in Session
      BY <1>0 DEF Session
    <3>2. CASE s.who = Portal
      BY <1>0, <2>5, <3>1, <3>2, InStepBumped DEF Has
    <3>3. CASE s.who # Portal
      BY <1>0, <1>u, <2>1, <2>5, <2>6, <3>1, <3>3, InStepKept DEF Has
    <3> QED
      BY <3>2, <3>3
  <2> QED
    BY <2>1, <2>7, InStepAllNext
<1>12. CASE Reissue(w)
  <2>1. ~Unbumped(w) /\ UNCHANGED <<row, gen>>
    BY <1>12 DEF Reissue, At, Unbumped
  <2>2. \A s \in sessions : InStep(s)'
    BY <1>0, <1>u, <2>1, InStepKept DEF Has
  <2>3. ASSUME NEW s \in sessions', s \notin sessions PROVE InStep(s)'
    <3>1. s = [who |-> Portal, epoch |-> row[Portal].epoch, gen |-> wk[w].gen]
      BY <1>12, <2>3 DEF Reissue
    <3>2. row[Portal].epoch \in Nat
      BY DEF BaseInv, TypeOK, PortalStays, Row, Numbers
    <3>3. gen[Portal] # wk[w].gen => <<"reissued", Portal>> \in causes'
      BY <1>12 DEF Reissue
    <3> QED
      BY <2>1, <3>1, <3>2, <3>3 DEF InStep, Excused
  <2> QED
    BY <2>2, <2>3, InStepAllNext
<1> QED
  BY <1>2, <1>3, <1>4, <1>5, <1>6, <1>7, <1>8, <1>9, <1>10, <1>11, <1>12 DEF Handle

LEMMA SessionsNext ==
    ASSUME BaseInv, BaseInv', SessionsInStep, [Next]_vars
    PROVE  SessionsInStep'
<1>1. CASE UNCHANGED vars
  BY <1>1 DEF vars, histVars, SessionsInStep, Excused, Has
<1>0. \A s \in sessions : InStep(s)
  BY InStepAll
<1>2. ASSUME NEW w \in Workers, NEW op \in Ops, NEW a \in Accounts, Begin(w, op, a)
      PROVE  SessionsInStep'
  <2>1. UNCHANGED <<row, sessions, gen, causes>> /\ wk[w].pc = "idle"
    BY <1>2 DEF Begin, histVars
  <2>2. \A v \in Workers : Unbumped(v) => Unbumped(v)'
    BY <1>2, <2>1, OwnRequestBegin DEF Unbumped
  <2>3. \A s \in sessions : InStep(s)'
    BY <1>0, <2>1, <2>2, InStepKept DEF Has
  <2> QED
    BY <2>1, <2>3, InStepAllNext
<1>3. CASE PanelRestart
  <2>1. UNCHANGED <<sessions, gen>>
    BY <1>3 DEF PanelRestart
  <2>2. causes \subseteq causes'
    BY <1>3, CausesGrow DEF Next
  <2>3. \A w \in Workers : Unbumped(w) => <<"unbumped", Portal>> \in causes'
    <3> SUFFICES ASSUME NEW w \in Workers, Unbumped(w) PROVE <<"unbumped", Portal>> \in causes'
      OBVIOUS
    <3>1. wk[w].who = Portal
      BY DEF Unbumped, BaseInv, RequestOK, Target, PortalOps
    <3>2. <<"unbumped", wk[w].who>> \in causes'
      BY <1>3 DEF PanelRestart, Unbumped
    <3> QED
      BY <3>1, <3>2
  <2>4. ASSUME NEW s \in sessions PROVE InStep(s)'
    <3>1. CASE Has(Boot)
      BY <1>0, <1>3, <2>1, <2>2, <2>3, <3>1, InStepKept DEF PanelRestart, Has
    <3>2. CASE ~Has(Boot)
      <4>1. Put(Boot, NewRow) /\ Recreated(Boot) \subseteq causes'
        BY <1>3, <3>2 DEF PanelRestart
      <4> QED
        BY <1>0, <2>1, <2>2, <2>3, <3>2, <4>1, InStepNewRow, Names
    <3> QED
      BY <3>1, <3>2
  <2> QED
    BY <2>1, <2>4, InStepAllNext
<1> QED
  BY <1>1, <1>2, <1>3, SessionsHandle DEF Next

LEMMA SessionsInit == Init => SessionsInStep
BY SessionsNames DEF Init, SessionsInStep, NewRow, Accounts, Has

\* "Bumping it revokes every outstanding session for that account" (auth.go:28), for any
\* number of accounts and requests, with the exceptions that RevokedStaysRevoked names.
THEOREM RevocationHolds == Spec => []RevokedStaysRevoked
<1>1. BaseInv /\ SessionsInStep => RevokedStaysRevoked
  BY DEF SessionsInStep, RevokedStaysRevoked, Honoured, PortalOps
<1> QED
  BY <1>1, SessionsInit, SessionsNext, BaseAlways, PTL DEF Spec

-----------------------------------------------------------------------------
(* Two-factor sign-in is what the admin was told. *)

\* What EnrolledInStep says of one admin.
Told(a) ==
    ~Excused({"race2fa"}, a) =>
        /\ Has(a) => /\ row[a].on <=> enrolled[a] # 0
                     /\ row[a].on => row[a].secret = enrolled[a]
        /\ ~Has(a) => enrolled[a] = 0

LEMMA ToldKept ==
    ASSUME NEW a, Told(a), causes \subseteq causes', enrolled'[a] = enrolled[a],
           a \in DOMAIN row' <=> a \in DOMAIN row,
           a \in DOMAIN row => row'[a].on = row[a].on /\ row'[a].secret = row[a].secret
    PROVE  Told(a)'
BY DEF Told, Excused, Has

\* A write of account b's 2FA that was not raced, or that everybody else is told of.
LEMMA ToldTOTP ==
    ASSUME BaseInv, NEW b \in Accounts, NEW secret \in Nat, NEW on \in BOOLEAN,
           on = TRUE => secret # 0, SetAdminTOTP(b, secret, on), causes \subseteq causes',
           NEW told \in Nat, enrolled' = [enrolled EXCEPT ![b] = told],
           told = IF on THEN secret ELSE 0,
           on /\ ~Has(b) => <<"race2fa", b>> \in causes',
           NEW a \in Admins, Told(a)
    PROVE  Told(a)'
<1>1. TypeOK /\ enrolled \in [Accounts -> Nat] /\ a \in Accounts
  BY Names DEF BaseInv, TypeOK, Numbers
<1>2. /\ DOMAIN row' = DOMAIN row
      /\ \A c \in DOMAIN row : c # b => row'[c] = row[c]
      /\ Has(b) => row'[b].secret = secret /\ (row'[b].on <=> on)
  BY <1>1, TOTPRow
<1>3. CASE a # b
  BY <1>1, <1>2, <1>3, ToldKept
<1>4. CASE a = b
  <2>1. enrolled'[a] = told
    BY <1>1, <1>4
  <2>2. CASE Has(b)
    BY <1>2, <1>4, <2>1, <2>2 DEF Told, Has
  <2>3. CASE ~Has(b)
    BY <1>2, <1>4, <2>1, <2>3 DEF Told, Has, Excused
  <2> QED
    BY <2>2, <2>3
<1> QED
  BY <1>3, <1>4

LEMMA ToldBump ==
    ASSUME BaseInv, NEW b \in Accounts, BumpSessionEpoch(b), causes \subseteq causes',
           UNCHANGED enrolled, NEW a \in Admins, Told(a)
    PROVE  Told(a)'
<1>1. TypeOK
  BY DEF BaseInv
<1>2. /\ DOMAIN row' = DOMAIN row
      /\ \A c \in DOMAIN row : c # b => row'[c] = row[c]
      /\ Has(b) => row'[b] = [row[b] EXCEPT !.epoch = @ + 1]
  BY <1>1, BumpRow
<1>3. \A c \in DOMAIN row : row'[c].on = row[c].on /\ row'[c].secret = row[c].secret
  BY <1>1, <1>2 DEF TypeOK, Row, Has
<1> QED
  BY <1>2, <1>3, ToldKept

LEMMA ToldNewRow ==
    ASSUME BaseInv, NEW b \in Accounts, ~Has(b), Put(b, NewRow), causes \subseteq causes',
           UNCHANGED enrolled, NEW a \in Admins, Told(a)
    PROVE  Told(a)'
<1>1. TypeOK
  BY DEF BaseInv
<1>2. /\ DOMAIN row' = DOMAIN row \cup {b} /\ row'[b] = NewRow
      /\ \A c \in DOMAIN row : c # b => row'[c] = row[c]
  BY <1>1, PutRow, NewRowType
<1>3. CASE a = b
  BY <1>2, <1>3 DEF Told, Excused, Has, NewRow
<1>4. CASE a # b
  BY <1>2, <1>4, ToldKept
<1> QED
  BY <1>3, <1>4

LEMMA ToldHandle ==
    ASSUME BaseInv, NEW w \in Workers, Handle(w), NEW a \in Admins, Told(a)
    PROVE  Told(a)'
<1>0. /\ causes \subseteq causes' /\ wk \in [Workers -> Request]
      /\ wk[w].who \in Accounts /\ wk[w].arg \in Nat
      /\ wk[w].seen.secret \in Nat
      /\ TypeOK /\ enrolled \in [Accounts -> Nat]
      /\ a \in Accounts /\ Boot \in Accounts /\ Portal \in Accounts /\ a # Portal
  <2>1. Next
    BY Zenon DEF Next
  <2>2. /\ wk \in [Workers -> Request] /\ wk[w].who \in Accounts /\ wk[w].arg \in Nat
        /\ wk[w].seen.secret \in Nat
    BY DEF BaseInv, TypeOK, Request, Row, Numbers
  <2> QED
    BY <2>1, <2>2, CausesGrow, Names DEF BaseInv, TypeOK, Numbers
<1>1. CASE UNCHANGED <<row, enrolled>>
  BY <1>0, <1>1, ToldKept
<1>2. CASE Login(w) \/ CreateCheck(w) \/ CountAdmins(w) \/ ReadAdmin(w) \/ ResetRead(w)
           \/ Reissue(w) \/ StoreFails(w)
  BY <1>1, <1>2 DEF Login, CreateCheck, CountAdmins, ReadAdmin, ResetRead, Reissue, StoreFails,
                    histVars
<1>3. CASE CreateAdmin(w)
  BY <1>0, <1>1, <1>3, ToldNewRow DEF CreateAdmin
<1>4. CASE DeleteAdmin(w)
  <2>1. /\ DOMAIN row' = DOMAIN row \ {wk[w].who}
        /\ \A b \in DOMAIN row' : row'[b] = row[b]
        /\ enrolled' = [enrolled EXCEPT ![wk[w].who] = 0]
    BY <1>4 DEF DeleteAdmin
  <2>2. CASE a = wk[w].who
    BY <1>0, <2>1, <2>2 DEF Told, Has
  <2>3. CASE a # wk[w].who
    BY <1>0, <2>1, <2>3, ToldKept
  <2> QED
    BY <2>2, <2>3
<1>5. CASE BumpDeleted(w) \/ ChangePassword(w) \/ LogoutAll(w)
  <2>1. BumpSessionEpoch(wk[w].who) /\ UNCHANGED enrolled
    BY <1>0, <1>5, PasswordRow DEF BumpDeleted, ChangePassword, LogoutAll, histVars
  <2> QED
    BY <1>0, <2>1, ToldBump
<1>6. CASE Setup2FA(w)
  <2>1. /\ SetAdminTOTP(wk[w].who, wk[w].arg, FALSE) /\ UNCHANGED enrolled
        /\ causes' = Raced(w) /\ ~wk[w].seen.on
    BY <1>6 DEF Setup2FA, At, BaseInv, RequestOK
  <2>2. /\ DOMAIN row' = DOMAIN row
        /\ \A c \in DOMAIN row : c # wk[w].who => row'[c] = row[c]
        /\ Has(wk[w].who) => ~row'[wk[w].who].on
    <3>1. FALSE \in BOOLEAN /\ (FALSE => wk[w].arg # 0)
      OBVIOUS
    <3> QED
      BY <1>0, <2>1, <3>1, TOTPRow
  <2>3. CASE a # wk[w].who
    BY <1>0, <2>1, <2>2, <2>3, ToldKept
  <2>4. CASE a = wk[w].who
    <3>1. CASE <<"race2fa", a>> \in causes'
      BY <3>1 DEF Told, Excused
    <3>2. CASE <<"race2fa", a>> \notin causes'
      <4>1. Has(a) /\ ~row[a].on
        BY <2>1, <2>4, <3>2 DEF Raced
      <4>2. ~row'[a].on /\ enrolled[a] = 0
        BY <1>0, <2>2, <2>4, <3>2, <4>1 DEF Told, Excused, TypeOK, Row, Has
      <4> QED
        BY <2>1, <2>2, <4>1, <4>2 DEF Told, Has
    <3> QED
      BY <3>1, <3>2
  <2> QED
    BY <2>3, <2>4
<1>7. CASE Verify2FA(w)
  <2>1. /\ SetAdminTOTP(wk[w].who, wk[w].seen.secret, TRUE)
        /\ enrolled' = [enrolled EXCEPT ![wk[w].who] = wk[w].seen.secret]
        /\ causes' = Raced(w) /\ wk[w].seen.secret # 0
    BY <1>7 DEF Verify2FA, At, BaseInv, RequestOK
  <2>2. ~Has(wk[w].who) => <<"race2fa", wk[w].who>> \in causes'
    BY <2>1 DEF Raced
  <2> QED
    BY <1>0, <2>1, <2>2, ToldTOTP
<1>8. CASE Disable2FA(w)
  BY <1>0, <1>8, ToldTOTP DEF Disable2FA
<1>9. CASE ResetClear(w)
  BY <1>0, <1>9, ToldTOTP DEF ResetClear
<1>10. CASE ResetWrite(w)
  <2>1. UNCHANGED enrolled
    BY <1>10 DEF ResetWrite
  <2>2. CASE SetAdminPassword(Boot)
    BY <1>0, <2>1, <2>2, PasswordRow, ToldBump
  <2>3. CASE ~Has(Boot) /\ Put(Boot, NewRow)
    BY <1>0, <2>1, <2>3, ToldNewRow
  <2>4. CASE UNCHANGED row
    BY <1>1, <2>1, <2>4
  <2> QED
    BY <1>10, <2>2, <2>3, <2>4 DEF ResetWrite
<1>11. CASE SetPortalPassword(w) \/ ChangePortalPassword(w)
  <2>1. PICK r : Put(Portal, r)
    BY <1>11 DEF SetPortalPassword, ChangePortalPassword
  <2>2. UNCHANGED enrolled
    BY <1>11 DEF SetPortalPassword, ChangePortalPassword
  <2>3. /\ DOMAIN row' = DOMAIN row \cup {Portal}
        /\ \A b \in DOMAIN row : b # Portal => row'[b] = row[b]
    BY <2>1 DEF Put
  <2> QED
    BY <1>0, <2>2, <2>3, ToldKept
<1>12. CASE BumpPortal(w)
  BY <1>0, <1>1, <1>12, ToldBump DEF BumpPortal
<1> QED
  BY <1>2, <1>3, <1>4, <1>5, <1>6, <1>7, <1>8, <1>9, <1>10, <1>11, <1>12 DEF Handle

LEMMA EnrolledNext ==
    ASSUME BaseInv, EnrolledInStep, [Next]_vars
    PROVE  EnrolledInStep'
<1> SUFFICES ASSUME NEW a \in Admins PROVE Told(a)'
  BY DEF EnrolledInStep, Told
<1>0. Told(a)
  BY DEF EnrolledInStep, Told
<1>1. CASE UNCHANGED vars
  BY <1>0, <1>1, ToldKept DEF vars, histVars
<1>2. ASSUME NEW w \in Workers, NEW op \in Ops, NEW b \in Accounts, Begin(w, op, b)
      PROVE  Told(a)'
  BY <1>0, <1>2, ToldKept DEF Begin, histVars
<1>3. CASE PanelRestart
  <2>1. causes \subseteq causes' /\ UNCHANGED enrolled
    BY <1>3, CausesGrow DEF Next, PanelRestart
  <2>2. CASE Has(Boot)
    BY <1>0, <1>3, <2>1, <2>2, ToldKept DEF PanelRestart
  <2>3. CASE ~Has(Boot)
    BY <1>0, <1>3, <2>1, <2>3, ToldNewRow, Names DEF PanelRestart
  <2> QED
    BY <2>2, <2>3
<1> QED
  BY <1>0, <1>1, <1>2, <1>3, ToldHandle DEF Next

LEMMA EnrolledInit == Init => EnrolledInStep
BY SessionsNames DEF Init, EnrolledInStep, NewRow, Accounts, Has

\* An admin who was told that 2FA is on has it on, with the verified secret, and one who
\* was told it is off has it off; unless a 2FA request wrote over a row that had changed
\* since it read it (twofa.go), for any number of admins and requests.
THEOREM TwoFactorHolds == Spec => []TwoFactorKept
<1>1. EnrolledInStep => TwoFactorKept
  BY DEF EnrolledInStep, TwoFactorKept, Has
<1> QED
  BY <1>1, EnrolledInit, EnrolledNext, BaseAlways, PTL DEF Spec
=============================================================================
