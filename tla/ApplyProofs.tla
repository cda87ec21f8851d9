---------------------------- MODULE ApplyProofs ----------------------------
(***************************************************************************)
(* Proofs about Apply, for any users, UUIDs, settings and certificates and *)
(* whatever fails: its types, that the baseline is what Xray runs, that    *)
(* the node follows the panel, and that the restart of an idle agent does  *)
(* not lead to one of Xray.                                                *)
(***************************************************************************)
EXTENDS Apply, TLAPS

\* Nothing that misleads the baseline is unrepaired.
Clean == causes \cap Misleading = {}

Wrote == {"nginx", "diff", "live", "restart", "commit"}

\* The holder of the mutex applies the config remembered last; config.json is whole but
\* between truncation and writing.
ShapeOK ==
    /\ ap.by = "none" => ap = Free
    /\ ap.by # "none" => /\ ap.step # "free"
                         /\ ap.eff \in Conf
                         /\ req[ap.by] # Nothing
                         /\ last = req[ap.by]
                         /\ ap.eff.skel = last.skel
    /\ ap.booted => ap.step = "commit"
    /\ ap.step = "fill" => file = Nothing
    /\ ap.step \in Wrote => file = ap.eff
    /\ seen <= cert

\* Where Xray is between the baseline and the new config: a user with no call left has its
\* new UUID, and one that is only to be added may have none.
Between(x, new, todo) ==
    /\ Skeleton(x) = Skeleton(new)
    /\ \A t \in Tags, n \in Names : <<t, n, "remove">> \notin todo =>
          \/ x.at[t][n] = new.at[t][n]
          \/ <<t, n, "add">> \in todo /\ x.at[t][n] = NoId

\* Who is to be removed is added again afterwards, or is to go.
Orderly(new, todo) ==
    \A t \in Tags, n \in Names :
        <<t, n, "remove">> \in todo => <<t, n, "add">> \in todo \/ new.at[t][n] = NoId

\* The baseline at every step of applyConfig.
HonestOK ==
    /\ base # Nothing => disk = base
    /\ file # Nothing /\ disk = file /\ Up => xray = file
    /\ ap.step \in {"free", "write"} /\ base # Nothing => base = file
    /\ ap.step = "fill" /\ base # Nothing /\ Up => xray = base
    /\ ap.step \in {"nginx", "diff"} =>
          /\ base # Nothing /\ Up => xray \in {base, file}
          /\ base = Nothing => disk # file
    /\ ap.step = "live" => /\ base # Nothing
                           /\ Skeleton(base) = Skeleton(ap.eff)
                           /\ ap.todo \subseteq Delta(base, ap.eff)
                           /\ Orderly(ap.eff, ap.todo)
                           /\ Up => Between(xray, ap.eff, ap.todo)
    /\ ap.step = "restart" => disk # file
    /\ ap.step = "commit" /\ Up => xray = file

HonestInStep ==
    /\ Clean => HonestOK
    /\ ap.booted /\ Up => xray = file

\* The certificate watcher has yet to see to the last certificate.
Lagging == seen # cert \/ (req["cert"] # Nothing /\ ap.by # "cert")

\* Once applied, the config remembered last is the baseline, the file and nginx's.
FollowsInStep ==
    /\ req["session"] # Nothing => told = req["session"]
    /\ "stale" \notin causes /\ told # Nothing /\ req["session"] = Nothing => last = told
    /\ ap.by # "none" => ap.eff = Effective(last, cert # 0) \/ Lagging
    /\ "nginx" \notin causes => nginx = nconf
    /\ "nginx" \notin causes /\ ap.step \in Wrote \ {"nginx"} => nconf = ap.eff.skel
    /\ ap.by = "none" /\ last # Nothing /\ "failed" \notin causes =>
          /\ base # Nothing
          /\ file = base
          /\ file = Effective(last, cert # 0) \/ Lagging
          /\ "nginx" \notin causes => nconf = last.skel

\* After the restart of an idle agent only the config of the baseline comes.
QuietInStep ==
    quiet =>
        /\ seen = cert
        /\ req["cert"] = Nothing
        /\ base # Nothing
        /\ req["session"] # Nothing => Effective(req["session"], cert # 0) = base
        /\ ap.by = "none" => file \in {base, Nothing}
        /\ ap.by # "none" => ap.eff = base /\ ap.todo = {} /\ ap.step # "restart"

-----------------------------------------------------------------------------
(* Configs and the holder of the mutex. *)

LEMMA EffectiveShape ==
    ASSUME NEW p \in Pushed, NEW has \in BOOLEAN
    PROVE  /\ Effective(p, has) \in Conf
           /\ Effective(p, has).skel = p.skel
           /\ Effective(p, has) # Nothing
           /\ p # Nothing
<1>1. p.skel \in Skels /\ p.users \in UserMaps /\ NoUsers \in UserMaps
  BY ClientSetsAssumption DEF Pushed, NoUsers, UserMaps
<1>2. [t \in Tags |-> IF t = "tls" /\ ~has THEN NoUsers ELSE p.users] \in [Tags -> UserMaps]
  BY <1>1
<1>3. Effective(p, has) \in Conf /\ Effective(p, has).skel = p.skel
  BY <1>1, <1>2 DEF Effective, Conf
<1> QED
  BY <1>3, NothingAssumption

LEMMA ConfIsSome == \A c \in Conf : c # Nothing
BY NothingAssumption

LEMMA FreeShape ==
    /\ Free \in Applier /\ Free.by = "none" /\ Free.step = "free" /\ Free.eff = Nothing
    /\ Free.todo = {} /\ ~Free.booted
BY DEF Free, Applier, Appliers, Steps

\* The holder goes on to step s.
LEMMA Moved ==
    ASSUME ap \in Applier, NEW s \in Steps, ap' = [ap EXCEPT !.step = s]
    PROVE  /\ ap' \in Applier /\ ap'.by = ap.by /\ ap'.step = s /\ ap'.eff = ap.eff
           /\ ap'.todo = ap.todo /\ (ap'.booted <=> ap.booted)
BY DEF Applier

LEMMA MovedTodo ==
    ASSUME ap \in Applier, NEW s \in Steps, NEW T \in SUBSET Calls,
           ap' = [ap EXCEPT !.step = s, !.todo = T]
    PROVE  /\ ap' \in Applier /\ ap'.by = ap.by /\ ap'.step = s /\ ap'.eff = ap.eff
           /\ ap'.todo = T /\ (ap'.booted <=> ap.booted)
BY DEF Applier

LEMMA RestartAt ==
    ASSUME ap \in Applier, Restart
    PROVE  /\ ap' \in Applier /\ ap'.by = ap.by /\ ap'.step = "commit" /\ ap'.eff = ap.eff
           /\ ap'.todo = ap.todo /\ ap'.booted
BY DEF Applier, Restart, Steps

LEMMA AcquireAt ==
    ASSUME TypeOK, NEW a \in Appliers, Acquire(a)
    PROVE  /\ ap' \in Applier /\ ap'.by = a /\ ap'.step = "write"
           /\ ap'.eff = Effective(req[a], cert # 0) /\ ap'.todo = {} /\ ~ap'.booted
           /\ ap'.eff \in Conf /\ ap'.eff.skel = req[a].skel /\ req[a] \in Pushed
<1>1. req[a] \in Pushed /\ (cert # 0) \in BOOLEAN
  BY DEF Acquire, TypeOK
<1> DEFINE e == Effective(req[a], cert # 0)
<1>2. e \in Conf /\ e.skel = req[a].skel
  BY <1>1, EffectiveShape
<1>3. ap' = [Free EXCEPT !.by = a, !.step = "write", !.eff = e]
  BY DEF Acquire
<1> HIDE DEF e
<1>4. /\ ap' \in Applier /\ ap'.by = a /\ ap'.step = "write" /\ ap'.eff = e
      /\ ap'.todo = {} /\ ~ap'.booted
  BY <1>2, <1>3 DEF Free, Applier, Steps, Appliers
<1> QED
  BY <1>1, <1>2, <1>4 DEF e

LEMMA ReleaseAt ==
    ASSUME TypeOK, Release, ap.by # "none"
    PROVE  /\ ap' \in Applier /\ ap' = Free /\ ap'.by = "none" /\ ap'.step = "free"
           /\ ap'.todo = {} /\ ~ap'.booted
           /\ req' \in [Appliers -> Pushed \cup {Nothing}] /\ req'[ap.by] = Nothing
           /\ ap.by \in Appliers /\ \A a \in Appliers : a # ap.by => req'[a] = req[a]
<1>1. ap.by \in Appliers /\ req \in [Appliers -> Pushed \cup {Nothing}]
  BY DEF TypeOK, Applier
<1> QED
  BY <1>1, FreeShape DEF Release

LEMMA DeltaShape ==
    ASSUME NEW old, NEW new
    PROVE  Delta(old, new) \in SUBSET Calls
BY DEF Delta, Removed, Added, Calls

\* What one call to Xray changes.
LEMMA CalledAt ==
    ASSUME NEW x \in Conf, NEW new \in Conf, NEW call \in Calls
    PROVE  LET y == Called(x, call, new)
               v == IF call[3] = "add" THEN new.at[call[1]][call[2]] ELSE NoId
           IN  /\ y \in Conf /\ Skeleton(y) = Skeleton(x)
               /\ y.at[call[1]][call[2]] = v
               /\ \A t \in Tags, n \in Names :
                    <<t, n>> # <<call[1], call[2]>> => y.at[t][n] = x.at[t][n]
<1> DEFINE t == call[1]
           n == call[2]
           v == IF call[3] = "add" THEN new.at[t][n] ELSE NoId
           y == Called(x, call, new)
<1>1. t \in Tags /\ n \in Names
  BY DEF Calls
<1>2. x.at \in [Tags -> UserMaps] /\ new.at[t] \in UserMaps /\ x.skel \in Skels /\ x.tls \in BOOLEAN
  BY <1>1 DEF Conf
<1>3. v \in Ids \cup {NoId}
  BY <1>1, <1>2 DEF UserMaps
<1>4. y = [x EXCEPT !.at = [x.at EXCEPT ![t] = [x.at[t] EXCEPT ![n] = v]]]
  BY DEF Called, Conf
<1> DEFINE m == [x.at EXCEPT ![t] = [x.at[t] EXCEPT ![n] = v]]
<1> HIDE DEF y, t, n, v
<1>5. x.at[t] \in [Names -> Ids \cup {NoId}]
  BY <1>1, <1>2 DEF UserMaps
<1>6. m \in [Tags -> UserMaps] /\ m[t][n] = v
  BY <1>1, <1>2, <1>3, <1>5 DEF UserMaps
<1>7. \A s \in Tags, o \in Names : <<s, o>> # <<t, n>> => m[s][o] = x.at[s][o]
  BY <1>1, <1>2, <1>3, <1>5 DEF UserMaps
<1> HIDE DEF m
<1>8. y \in Conf /\ y.at = m /\ y.skel = x.skel /\ y.tls = x.tls
  BY <1>2, <1>4, <1>6 DEF Conf, m
<1> QED
  BY <1>6, <1>7, <1>8 DEF Skeleton, y, t, n, v

\* One call, its reply lost or refused in the second case.
LEMMA CallAt ==
    ASSUME TypeOK, ap.eff \in Conf, NEW call \in Calls, Call(call)
    PROVE  /\ ap' \in Applier /\ ap'.by = ap.by /\ ap'.eff = ap.eff /\ (ap'.booted <=> ap.booted)
           /\ xray' \in Conf \cup {Nothing}
           /\ xray = Nothing => xray' = Nothing
           /\ call \in ap.todo
           /\ \/ /\ Accepts(xray, call) /\ xray \in Conf /\ xray' = Called(xray, call, ap.eff)
                 /\ ap'.step = "live" /\ ap'.todo = ap.todo \ {call}
              \/ ap'.step = "restart" /\ ap'.todo = {}
<1>0. ap \in Applier /\ xray \in Conf \cup {Nothing} /\ ap.todo \in SUBSET Calls /\ ap.step = "live"
  BY DEF TypeOK, Applier, Call, At
<1>1. Accepts(xray, call) => xray \in Conf /\ Called(xray, call, ap.eff) \in Conf
  BY <1>0, CalledAt DEF Accepts
<1>2. CASE /\ Accepts(xray, call) /\ xray' = Called(xray, call, ap.eff)
           /\ ap' = [ap EXCEPT !.todo = @ \ {call}]
  <2>1. /\ ap' \in Applier /\ ap'.by = ap.by /\ ap'.eff = ap.eff /\ (ap'.booted <=> ap.booted)
        /\ ap'.step = ap.step /\ ap'.todo = ap.todo \ {call}
    BY <1>0, <1>2 DEF Applier
  <2> QED
    BY <1>0, <1>1, <1>2, <2>1 DEF Call, Accepts
<1>3. CASE /\ xray' \in {xray} \cup (IF Accepts(xray, call) THEN {Called(xray, call, ap.eff)}
                                                           ELSE {})
           /\ ap' = [ap EXCEPT !.step = "restart", !.todo = {}]
  <2>1. /\ ap' \in Applier /\ ap'.by = ap.by /\ ap'.eff = ap.eff /\ (ap'.booted <=> ap.booted)
        /\ ap'.step = "restart" /\ ap'.todo = {}
    <3>1. "restart" \in Steps /\ {} \in SUBSET Calls /\ ap \in Applier
      BY <1>0 DEF Steps
    <3>2. ap' = [ap EXCEPT !.step = "restart", !.todo = {}]
      BY <1>3
    <3> QED
      BY <3>1, <3>2, MovedTodo
  <2>2. xray' \in Conf \cup {Nothing} /\ (xray = Nothing => xray' = Nothing)
    <3>1. xray' = xray \/ (Accepts(xray, call) /\ xray' = Called(xray, call, ap.eff))
      BY <1>3
    <3>2. Accepts(xray, call) => xray # Nothing
      BY DEF Accepts
    <3> QED
      BY <1>0, <1>1, <3>1, <3>2
  <2> QED
    BY <2>1, <2>2 DEF Call
<1> QED
  BY <1>2, <1>3 DEF Call

\* Only users changed, or a restart it is.
LEMMA DiffAt ==
    ASSUME TypeOK, Diff
    PROVE  /\ ap' \in Applier /\ ap'.by = ap.by /\ ap'.eff = ap.eff /\ (ap'.booted <=> ap.booted)
           /\ \/ /\ base # Nothing /\ Skeleton(base) = Skeleton(ap.eff)
                 /\ ap'.step = "live" /\ ap'.todo = Delta(base, ap.eff)
              \/ /\ ~(base # Nothing /\ Skeleton(base) = Skeleton(ap.eff))
                 /\ ap'.step = "restart" /\ ap'.todo = {}
<1>0. ap \in Applier /\ ap.step = "diff" /\ ap.todo = {}
  BY DEF TypeOK, Diff, At
<1>1. CASE base # Nothing /\ Skeleton(base) = Skeleton(ap.eff)
  <2>1. ap' = [ap EXCEPT !.step = "live", !.todo = Delta(base, ap.eff)]
    BY <1>1 DEF Diff
  <2> QED
    BY <1>0, <1>1, <2>1, MovedTodo, DeltaShape DEF Steps
<1>2. CASE ~(base # Nothing /\ Skeleton(base) = Skeleton(ap.eff))
  <2>1. ap' = [ap EXCEPT !.step = "restart"]
    BY <1>2 DEF Diff
  <2> QED
    BY <1>0, <1>2, <2>1, Moved DEF Steps
<1> QED
  BY <1>1, <1>2

-----------------------------------------------------------------------------
(* Types. *)

BaseInv == TypeOK /\ ShapeOK

NodeTypes ==
    /\ cert \in 0..MaxCerts /\ seen \in 0..MaxCerts /\ last \in Pushed \cup {Nothing}
    /\ req \in [Appliers -> Pushed \cup {Nothing}] /\ pushes \in 0..MaxPushes
    /\ told \in Pushed \cup {Nothing}
ApTypes == ap \in Applier /\ (ap.todo # {} => ap.step = "live")
XrayTypes ==
    /\ file \in Conf \cup {Nothing} /\ base \in Conf \cup {Nothing}
    /\ disk \in Conf \cup {Nothing} /\ xray \in Conf \cup {Nothing}
NginxTypes == nconf \in Skels \cup {Nothing} /\ nginx \in Skels \cup {Nothing}
CauseTypes == quiet \in BOOLEAN /\ causes \subseteq CauseKinds

LEMMA TypeSplit ==
    TypeOK <=> NodeTypes /\ ApTypes /\ XrayTypes /\ NginxTypes /\ CauseTypes
BY DEF TypeOK, NodeTypes, ApTypes, XrayTypes, NginxTypes, CauseTypes

LEMMA TypeSplitNext ==
    TypeOK' <=> NodeTypes' /\ ApTypes' /\ XrayTypes' /\ NginxTypes' /\ CauseTypes'
BY DEF TypeOK, NodeTypes, ApTypes, XrayTypes, NginxTypes, CauseTypes

LEMMA CausesTyped ==
    ASSUME TypeOK, Next
    PROVE  CauseTypes'
<1>0. quiet \in BOOLEAN /\ causes \subseteq CauseKinds
  BY DEF TypeOK
<1>1. quiet' \in BOOLEAN
  BY <1>0, Zenon DEF Next, Step, Push, NewCert, CertTick, CertRestart, XrayBoots, AgentStop, Acquire,
     Truncate, Fill, WriteFails, ApplyNginx, Diff, Call, LiveDone, Restart, RestartFails, Commit,
     histVars
<1>2. causes' \subseteq CauseKinds
  <2>1. CASE \E p \in Pushed : Push(p)
    BY <1>0, <2>1 DEF Push
  <2>2. CASE NewCert \/ CertTick \/ CertRestart \/ XrayBoots
    BY <1>0, <2>2 DEF NewCert, CertTick, CertRestart, XrayBoots, histVars
  <2>3. CASE AgentStop
    BY <1>0, <2>3 DEF AgentStop, NginxApplied, CauseKinds
  <2>4. CASE Truncate \/ Fill \/ WriteFails \/ Diff \/ (\E call \in Calls : Call(call))
    BY <1>0, <2>4 DEF Truncate, Fill, WriteFails, Diff, Call, histVars, CauseKinds
  <2>5. CASE LiveDone \/ Restart \/ RestartFails \/ Commit
    BY <1>0, <2>5 DEF LiveDone, Restart, RestartFails, Commit, histVars, CauseKinds
  <2>6. CASE ApplyNginx
    BY <1>0, <2>6 DEF ApplyNginx, NginxApplied, CauseKinds
  <2>7. CASE \E a \in Appliers : Acquire(a)
    BY <1>0, <2>7 DEF Acquire, CauseKinds
  <2> QED
    BY <2>1, <2>2, <2>3, <2>4, <2>5, <2>6, <2>7 DEF Next, Step
<1> QED
  BY <1>1, <1>2 DEF CauseTypes

\* The steps of applyConfig, in turn.
LEMMA StepBase ==
    ASSUME BaseInv, Step, CauseTypes'
    PROVE  BaseInv'
<1>0. TypeOK /\ ShapeOK /\ NodeTypes /\ ApTypes /\ XrayTypes /\ NginxTypes
  BY TypeSplit DEF BaseInv
<1>1. UNCHANGED <<cert, seen, pushes, told>>
  BY DEF Step, Acquire, Truncate, Fill, WriteFails, ApplyNginx, Diff, Call, LiveDone, Restart,
     RestartFails, Commit, histVars
<1>k. ASSUME NodeTypes', ApTypes', XrayTypes', NginxTypes', ShapeOK' PROVE BaseInv'
  BY <1>k, TypeSplitNext DEF BaseInv
<1>2. ASSUME NEW a \in Appliers, Acquire(a) PROVE BaseInv'
  <2>1. /\ ap' \in Applier /\ ap'.by = a /\ ap'.step = "write" /\ ap'.todo = {} /\ ~ap'.booted
        /\ ap'.eff \in Conf /\ ap'.eff.skel = req[a].skel /\ req[a] \in Pushed
    BY <1>0, <1>2, AcquireAt
  <2>2. last' = req[a] /\ UNCHANGED <<req, file, base, disk, xray, nconf, nginx>> /\ req[a] # Nothing
    BY <1>2 DEF Acquire, xrayVars
  <2>3. a # "none"
    BY DEF Appliers
  <2>4. ShapeOK'
    BY <1>0, <1>1, <2>1, <2>2, <2>3 DEF ShapeOK, Wrote
  <2>5. NodeTypes' /\ ApTypes' /\ XrayTypes' /\ NginxTypes'
    BY <1>0, <1>1, <2>1, <2>2 DEF NodeTypes, ApTypes, XrayTypes, NginxTypes
  <2> QED
    BY <1>k, <2>4, <2>5
\* A step that goes on to another one.
<1>3. ASSUME NEW s \in Steps \ {"free"}, ap.by # "none", ap' \in Applier, ap'.by = ap.by,
             ap'.step = s, ap'.eff = ap.eff, ap'.todo # {} => s = "live",
             ap'.booted => s = "commit", UNCHANGED <<last, req>>,
             s = "fill" => file' = Nothing, s \in Wrote => file' = ap.eff,
             XrayTypes', NginxTypes'
      PROVE  BaseInv'
  <2>1. NodeTypes' /\ ApTypes'
    BY <1>0, <1>1, <1>3 DEF NodeTypes, ApTypes
  <2>2. ShapeOK'
    BY <1>0, <1>1, <1>3 DEF ShapeOK
  <2> QED
    BY <1>3, <1>k, <2>1, <2>2
<1>4. CASE Truncate
  <2>1. /\ ap.by # "none" /\ ap' = [ap EXCEPT !.step = "fill"] /\ file' = Nothing /\ ap.step = "write"
        /\ UNCHANGED <<last, req, base, disk, xray, nconf, nginx>>
    BY <1>4 DEF Truncate, At
  <2>2. "fill" \in Steps \ {"free"} /\ "fill" \notin Wrote /\ ap.todo = {} /\ ~ap.booted
    BY <1>0, <2>1 DEF Steps, Wrote, ShapeOK, ApTypes
  <2>3. XrayTypes' /\ NginxTypes'
    BY <1>0, <2>1 DEF XrayTypes, NginxTypes
  <2>4. /\ ap' \in Applier /\ ap'.by = ap.by /\ ap'.step = "fill" /\ ap'.eff = ap.eff
        /\ ap'.todo = ap.todo /\ (ap'.booted <=> ap.booted)
    BY <1>0, <2>1, <2>2, Moved DEF ApTypes
  <2> QED
    BY <1>3, <2>1, <2>2, <2>3, <2>4
<1>5. CASE Fill \/ ApplyNginx
  <2>0. PICK s \in {"nginx", "diff"} : ap' = [ap EXCEPT !.step = s]
    BY <1>5 DEF Fill, ApplyNginx
  <2>1. ap.by # "none" /\ UNCHANGED <<last, req, base, disk, xray>> /\ ap.step \in {"fill", "nginx"}
    BY <1>5 DEF Fill, ApplyNginx, At, xrayVars
  <2>2. s \in Steps \ {"free"} /\ s # "fill" /\ ap.todo = {} /\ ~ap.booted /\ ap.eff \in Conf
    BY <1>0, <2>1 DEF Steps, ShapeOK, ApTypes
  <2>3. file' = ap.eff
    BY <1>0, <1>5 DEF Fill, ApplyNginx, At, ShapeOK, Wrote, xrayVars
  <2>4. XrayTypes'
    BY <1>0, <2>1, <2>2, <2>3 DEF XrayTypes
  <2>5. NginxTypes'
    <3>1. ap.eff.skel \in Skels
      BY <2>2 DEF Conf
    <3> QED
      BY <1>0, <1>5, <3>1 DEF Fill, ApplyNginx, NginxApplied, NginxTypes
  <2>6. /\ ap' \in Applier /\ ap'.by = ap.by /\ ap'.step = s /\ ap'.eff = ap.eff
        /\ ap'.todo = ap.todo /\ (ap'.booted <=> ap.booted)
    BY <1>0, <2>0, <2>2, Moved DEF ApTypes
  <2> QED
    BY <1>3, <2>1, <2>2, <2>3, <2>4, <2>5, <2>6
<1>6. CASE Diff
  <2>1. /\ ap.by # "none" /\ ap.step = "diff"
        /\ UNCHANGED <<last, req, file, base, disk, xray, nconf, nginx>>
    BY <1>6 DEF Diff, At, xrayVars
  <2>2. XrayTypes' /\ NginxTypes' /\ file' = ap.eff /\ ~ap.booted
    BY <1>0, <2>1 DEF XrayTypes, NginxTypes, ShapeOK, Wrote
  <2>3. PICK s \in {"live", "restart"} :
            /\ ap' \in Applier /\ ap'.by = ap.by /\ ap'.eff = ap.eff /\ (ap'.booted <=> ap.booted)
            /\ ap'.step = s /\ (ap'.todo # {} => s = "live")
    BY <1>0, <1>6, DiffAt
  <2>4. s \in Steps \ {"free"} /\ s # "fill"
    BY DEF Steps
  <2> QED
    BY <1>3, <2>1, <2>2, <2>3, <2>4
<1>7. ASSUME NEW call \in Calls, Call(call) PROVE BaseInv'
  <2>1. /\ ap.by # "none" /\ ap.step = "live"
        /\ UNCHANGED <<last, req, file, base, disk, nconf, nginx>>
    BY <1>7 DEF Call, At
  <2>2. NginxTypes' /\ file' = ap.eff /\ ~ap.booted /\ ap.eff \in Conf
    BY <1>0, <2>1 DEF NginxTypes, ShapeOK, Wrote
  <2>3. PICK s \in {"live", "restart"} :
            /\ ap' \in Applier /\ ap'.by = ap.by /\ ap'.eff = ap.eff /\ (ap'.booted <=> ap.booted)
            /\ ap'.step = s /\ (ap'.todo # {} => s = "live") /\ xray' \in Conf \cup {Nothing}
    BY <1>0, <1>7, <2>2, CallAt
  <2>4. s \in Steps \ {"free"} /\ s # "fill"
    BY DEF Steps
  <2>5. XrayTypes'
    BY <1>0, <2>1, <2>3 DEF XrayTypes
  <2> QED
    BY <1>3, <2>1, <2>2, <2>3, <2>4, <2>5
<1>8. CASE LiveDone \/ Restart
  <2>1. /\ ap.by # "none" /\ ap.step \in {"live", "restart"} /\ xray' \in {xray, file}
        /\ UNCHANGED <<last, req, file, base, disk, nconf, nginx>> /\ ap.todo = {}
    BY <1>0, <1>8 DEF LiveDone, Restart, At, xrayVars, Booted, ApTypes
  <2>2. NginxTypes' /\ file' = ap.eff /\ XrayTypes'
    BY <1>0, <2>1 DEF NginxTypes, XrayTypes, ShapeOK, Wrote
  <2>3. "commit" \in Steps \ {"free"}
    BY DEF Steps
  <2>4. ap' \in Applier /\ ap'.by = ap.by /\ ap'.step = "commit" /\ ap'.eff = ap.eff /\ ap'.todo = {}
    <3>1. CASE LiveDone
      BY <1>0, <2>1, <2>3, <3>1, Moved DEF LiveDone, ApTypes
    <3>2. CASE Restart
      BY <1>0, <2>1, <3>2, RestartAt DEF ApTypes
    <3> QED
      BY <1>8, <3>1, <3>2
  <2> QED
    BY <1>3, <2>1, <2>2, <2>3, <2>4
<1>9. CASE WriteFails \/ RestartFails \/ Commit
  <2>1. ap.by # "none" /\ Release /\ UNCHANGED <<last, file, nconf, nginx>>
    BY <1>9 DEF WriteFails, RestartFails, Commit, At, xrayVars
  <2>2. /\ ap' \in Applier /\ ap' = Free /\ ap'.by = "none" /\ ap'.step = "free"
        /\ ap'.todo = {} /\ ~ap'.booted
        /\ req' \in [Appliers -> Pushed \cup {Nothing}]
    BY <1>0, <2>1, ReleaseAt
  <2>3. ap.eff \in Conf
    BY <1>0, <2>1 DEF ShapeOK
  <2>4. XrayTypes'
    BY <1>0, <1>9, <2>3 DEF XrayTypes, WriteFails, RestartFails, Commit, xrayVars, Booted
  <2>5. NodeTypes' /\ ApTypes' /\ NginxTypes'
    BY <1>0, <1>1, <2>1, <2>2 DEF NodeTypes, ApTypes, NginxTypes
  <2>6. ShapeOK'
    BY <1>0, <1>1, <2>2 DEF ShapeOK, Wrote
  <2> QED
    BY <1>k, <2>4, <2>5, <2>6
<1> QED
  BY <1>2, <1>4, <1>5, <1>6, <1>7, <1>8, <1>9 DEF Step

LEMMA OutsideBase ==
    ASSUME BaseInv, CauseTypes',
           (\E p \in Pushed : Push(p)) \/ NewCert \/ CertTick \/ CertRestart \/ XrayBoots
    PROVE  BaseInv'
<1>0. TypeOK /\ ShapeOK /\ NodeTypes /\ ApTypes /\ XrayTypes /\ NginxTypes
  BY TypeSplit DEF BaseInv
<1>1. /\ UNCHANGED <<last, ap, file, base, disk, nconf, nginx>> /\ xray' \in {xray, file}
      /\ cert' \in {cert, cert + 1} /\ seen' \in {seen, cert'}
      /\ (cert' # cert => cert < MaxCerts /\ seen' = seen)
  BY DEF Push, NewCert, CertTick, CertRestart, XrayBoots, xrayVars, Booted
<1>2. /\ cert' \in 0..MaxCerts /\ seen' \in 0..MaxCerts /\ seen' <= cert'
  BY <1>0, <1>1, ApplyBounds DEF NodeTypes, ShapeOK
<1>3. /\ req' \in [Appliers -> Pushed \cup {Nothing}]
      /\ \A a \in Appliers : req[a] # Nothing => req'[a] = req[a]
  BY <1>0 DEF Push, NewCert, CertTick, CertRestart, XrayBoots, NodeTypes, Appliers
<1>4. pushes' \in 0..MaxPushes /\ told' \in Pushed \cup {Nothing}
  BY <1>0, ApplyBounds DEF Push, NewCert, CertTick, CertRestart, XrayBoots, NodeTypes, histVars
<1>5. NodeTypes' /\ ApTypes' /\ XrayTypes' /\ NginxTypes'
  BY <1>0, <1>1, <1>2, <1>3, <1>4 DEF NodeTypes, ApTypes, XrayTypes, NginxTypes
<1>6. ap.by # "none" => ap.by \in Appliers
  BY <1>0 DEF ApTypes, Applier
<1>7. ShapeOK'
  BY <1>0, <1>1, <1>2, <1>3, <1>6 DEF ShapeOK
<1> QED
  BY <1>5, <1>7, TypeSplitNext DEF BaseInv

LEMMA StopBase ==
    ASSUME BaseInv, CauseTypes', AgentStop
    PROVE  BaseInv'
<1>0. TypeOK /\ ShapeOK /\ NodeTypes /\ ApTypes /\ XrayTypes /\ NginxTypes
  BY TypeSplit DEF BaseInv
<1>1. /\ seen' = cert /\ last' = Nothing /\ told' = Nothing /\ ap' = Free /\ base' = Seeded
      /\ UNCHANGED <<cert, file, disk, xray, pushes>>
  BY DEF AgentStop
<1>2. req' \in [Appliers -> Pushed \cup {Nothing}]
  BY DEF AgentStop
<1>3. NginxTypes'
  BY <1>0 DEF AgentStop, NginxApplied, NginxTypes
<1>4. NodeTypes' /\ ApTypes' /\ XrayTypes'
  BY <1>0, <1>1, <1>2, FreeShape DEF NodeTypes, ApTypes, XrayTypes, Seeded
<1>5. ShapeOK'
  <2>1. cert <= cert
    BY <1>0, ApplyBounds DEF NodeTypes
  <2> QED
    BY <1>0, <1>1, <2>1, FreeShape DEF ShapeOK, Wrote
<1> QED
  BY <1>3, <1>4, <1>5, TypeSplitNext DEF BaseInv

LEMMA BaseNext ==
    ASSUME BaseInv, [Next]_vars
    PROVE  BaseInv'
<1>1. CASE UNCHANGED vars
  <2>1. TypeOK' <=> TypeOK
    BY <1>1 DEF vars, TypeOK
  <2>2. ShapeOK' <=> ShapeOK
    BY <1>1 DEF vars, ShapeOK
  <2> QED
    BY <2>1, <2>2 DEF BaseInv
<1>2. CASE Next
  <2>1. CauseTypes'
    BY <1>2, CausesTyped DEF BaseInv
  <2> QED
    BY <1>2, <2>1, StepBase, OutsideBase, StopBase DEF Next
<1> QED
  BY <1>1, <1>2

\* Init as one config or Nothing for all that is recorded, and Xray running the file.
LEMMA InitConf ==
    ASSUME Init
    PROVE  /\ cert \in 0..MaxCerts /\ seen = cert /\ file \in Conf /\ xray = file
           /\ base \in {Nothing, file} /\ disk = base /\ last \in Pushed \cup {Nothing}
           /\ nconf \in Skels \cup {Nothing} /\ nginx = nconf
           /\ last # Nothing => base = file /\ file = Effective(last, cert # 0) /\ nconf = last.skel
<1>1. cert \in 0..MaxCerts /\ seen = cert /\ xray = file /\ nginx = nconf
  BY DEF Init
<1>2. CASE Fresh
  <2>1. PICK k \in Skels : file = Effective([skel |-> k, users |-> NoUsers], cert # 0)
    BY <1>2 DEF Fresh
  <2>2. file \in Conf
    BY <2>1 DEF Effective, Conf, NoUsers, UserMaps
  <2> QED
    BY <1>1, <1>2, <2>2 DEF Fresh
<1>3. ASSUME NEW p \in Pushed, Settled(p)
      PROVE  /\ file \in Conf /\ base = file /\ disk = base /\ last = p /\ nconf = p.skel
             /\ file = Effective(p, cert # 0) /\ p.skel \in Skels
  BY <1>3, EffectiveShape DEF Settled, Pushed
<1> QED
  BY <1>1, <1>2, <1>3 DEF Init

LEMMA BaseInit == Init => BaseInv
<1> SUFFICES ASSUME Init PROVE BaseInv
  OBVIOUS
<1>1. /\ cert \in 0..MaxCerts /\ seen = cert /\ file \in Conf /\ xray = file
      /\ base \in {Nothing, file} /\ disk = base /\ last \in Pushed \cup {Nothing}
      /\ nconf \in Skels \cup {Nothing} /\ nginx = nconf
  BY InitConf
<1>2. /\ req = [a \in Appliers |-> Nothing] /\ ap = Free /\ pushes = 0 /\ told = last
      /\ causes = {} /\ quiet = FALSE
  BY DEF Init
<1>3. NodeTypes
  BY <1>1, <1>2, ApplyBounds DEF NodeTypes
<1>4. ApTypes /\ XrayTypes /\ NginxTypes
  BY <1>1, <1>2, FreeShape DEF ApTypes, XrayTypes, NginxTypes
<1>5. CauseTypes
  BY <1>2 DEF CauseTypes
<1>6. ShapeOK
  <2>1. cert <= cert
    BY <1>1, ApplyBounds
  <2> QED
    BY <1>1, <1>2, <2>1, FreeShape DEF ShapeOK, Wrote
<1> QED
  BY <1>3, <1>4, <1>5, <1>6, TypeSplit DEF BaseInv

LEMMA BaseAlways == Spec => []BaseInv
BY BaseInit, BaseNext, PTL DEF Spec

\* Every value keeps its shape; calls are left only while liveApply makes them.
THEOREM TypeCorrect == Spec => []TypeOK
<1>1. BaseInv => TypeOK
  BY DEF BaseInv
<1> QED
  BY <1>1, BaseAlways, PTL

-----------------------------------------------------------------------------
(* The delta and its calls. *)

LEMMA InDelta ==
    ASSUME NEW old, NEW new, NEW t \in Tags, NEW n \in Names
    PROVE  /\ <<t, n, "add">> \in Delta(old, new) <=> new.at[t][n] \notin {NoId, old.at[t][n]}
           /\ <<t, n, "remove">> \in Delta(old, new) <=> old.at[t][n] \notin {NoId, new.at[t][n]}
<1>1. <<t, n>> \in Added(old, new) <=> new.at[t][n] \notin {NoId, old.at[t][n]}
  BY DEF Added
<1>2. <<t, n>> \in Removed(old, new) <=> old.at[t][n] \notin {NoId, new.at[t][n]}
  BY DEF Removed
<1>3. Added(old, new) \subseteq Tags \X Names /\ Removed(old, new) \subseteq Tags \X Names
  BY DEF Added, Removed
<1>4. <<t, n, "add">> \in Delta(old, new) <=> <<t, n>> \in Added(old, new)
  BY <1>3 DEF Delta
<1>5. <<t, n, "remove">> \in Delta(old, new) <=> <<t, n>> \in Removed(old, new)
  BY <1>3 DEF Delta
<1> QED
  BY <1>1, <1>2, <1>4, <1>5

LEMMA DeltaSelf ==
    ASSUME NEW c
    PROVE  Delta(c, c) = {}
<1>1. Added(c, c) = {} /\ Removed(c, c) = {}
  BY DEF Added, Removed
<1> QED
  BY <1>1 DEF Delta

LEMMA DeltaBegins ==
    ASSUME NEW old, NEW new, NEW x \in {old, new}, Skeleton(old) = Skeleton(new)
    PROVE  Between(x, new, Delta(old, new)) /\ Orderly(new, Delta(old, new))
<1>1. Orderly(new, Delta(old, new))
  BY InDelta DEF Orderly
<1>2. CASE x = new
  BY <1>1, <1>2 DEF Between
<1>3. CASE x = old
  <2>1. ASSUME NEW t \in Tags, NEW n \in Names, <<t, n, "remove">> \notin Delta(old, new)
        PROVE  \/ old.at[t][n] = new.at[t][n]
               \/ <<t, n, "add">> \in Delta(old, new) /\ old.at[t][n] = NoId
    BY <2>1, InDelta
  <2> QED
    BY <1>1, <1>3, <2>1 DEF Between
<1> QED
  BY <1>2, <1>3

LEMMA DeltaBooted ==
    ASSUME NEW new, NEW todo
    PROVE  Between(new, new, todo)
BY DEF Between

LEMMA DeltaEnds ==
    ASSUME NEW x \in Conf, NEW new \in Conf, Between(x, new, {})
    PROVE  x = new
<1>1. x.skel = new.skel /\ x.tls = new.tls
  BY DEF Between, Skeleton
<1>2. x.at \in [Tags -> UserMaps] /\ new.at \in [Tags -> UserMaps]
  BY DEF Conf
<1>3. \A t \in Tags, n \in Names : x.at[t][n] = new.at[t][n]
  BY DEF Between
<1>4. \A t \in Tags : x.at[t] = new.at[t]
  BY <1>2, <1>3 DEF UserMaps
<1>5. x.at = new.at
  BY <1>2, <1>4
<1> QED
  BY <1>1, <1>5 DEF Conf

LEMMA DeltaGoesOn ==
    ASSUME NEW x \in Conf, NEW new \in Conf, NEW todo \in SUBSET Calls, NEW call \in todo,
           Between(x, new, todo), Orderly(new, todo), Accepts(x, call),
           call[3] = "add" => <<call[1], call[2], "remove">> \notin todo
    PROVE  /\ Between(Called(x, call, new), new, todo \ {call})
           /\ Orderly(new, todo \ {call})
<1> DEFINE y == Called(x, call, new)
<1>1. PICK t \in Tags, n \in Names, op \in {"add", "remove"} : call = <<t, n, op>>
  BY DEF Calls
<1>2. /\ Skeleton(y) = Skeleton(x)
      /\ y.at[t][n] = IF op = "add" THEN new.at[t][n] ELSE NoId
      /\ \A s \in Tags, o \in Names : <<s, o>> # <<t, n>> => y.at[s][o] = x.at[s][o]
  <2>1. call \in Calls /\ call[1] = t /\ call[2] = n /\ call[3] = op
    BY <1>1
  <2> HIDE DEF y
  <2>2. /\ Skeleton(y) = Skeleton(x)
        /\ y.at[call[1]][call[2]] = IF call[3] = "add" THEN new.at[call[1]][call[2]] ELSE NoId
        /\ \A s \in Tags, o \in Names :
             <<s, o>> # <<call[1], call[2]>> => y.at[s][o] = x.at[s][o]
    BY <2>1, CalledAt, Zenon DEF y
  <2> QED
    BY <2>1, <2>2
<1> HIDE DEF y
<1>3. \A s \in Tags, o \in Names, q \in {"add", "remove"} :
        <<s, o, q>> \in todo \ {call} <=> <<s, o, q>> \in todo /\ <<s, o, q>> # <<t, n, op>>
  BY <1>1
<1>4. Orderly(new, todo \ {call})
  <2> SUFFICES ASSUME NEW s \in Tags, NEW o \in Names, <<s, o, "remove">> \in todo \ {call}
               PROVE  <<s, o, "add">> \in todo \ {call} \/ new.at[s][o] = NoId
    BY DEF Orderly
  <2>1. <<s, o, "add">> \in todo \/ new.at[s][o] = NoId
    BY DEF Orderly
  <2>2. <<s, o, "add">> # call
    BY <1>1
  <2> QED
    BY <2>1, <2>2
<1>5. Between(y, new, todo \ {call})
  <2>1. ASSUME NEW s \in Tags, NEW o \in Names, <<s, o, "remove">> \notin todo \ {call}
        PROVE  \/ y.at[s][o] = new.at[s][o]
               \/ <<s, o, "add">> \in todo \ {call} /\ y.at[s][o] = NoId
    <3>1. CASE <<s, o>> = <<t, n>>
      <4>1. s = t /\ o = n
        BY <3>1
      <4>2. CASE op = "add"
        BY <1>2, <4>1, <4>2
      <4>3. CASE op = "remove"
        <5>1. y.at[s][o] = NoId
          BY <1>2, <4>1, <4>3
        <5>2. <<s, o, "add">> \in todo \/ new.at[s][o] = NoId
          BY <1>1, <4>1, <4>3 DEF Orderly
        <5>3. <<s, o, "add">> # call
          BY <1>1, <4>3
        <5> QED
          BY <5>1, <5>2, <5>3
      <4> QED
        BY <4>2, <4>3
    <3>2. CASE <<s, o>> # <<t, n>>
      <4>1. y.at[s][o] = x.at[s][o] /\ <<s, o, "remove">> # call /\ <<s, o, "add">> # call
        BY <1>1, <1>2, <3>2
      <4> QED
        BY <2>1, <4>1 DEF Between
    <3> QED
      BY <3>1, <3>2
  <2> QED
    BY <1>2, <2>1 DEF Between
<1> QED
  BY <1>4, <1>5 DEF y

-----------------------------------------------------------------------------
(* The baseline. *)

\* The mutex is free, and so no step is under way.
LEMMA Idle == ASSUME BaseInv PROVE ap.by = "none" <=> ap.step = "free"
BY FreeShape DEF BaseInv, ShapeOK

\* Xray goes on as it is, or boots from config.json.
LEMMA XrayHonest ==
    ASSUME BaseInv, HonestInStep, xray' \in {xray, file}, UNCHANGED <<ap, file, base, disk, causes>>
    PROVE  HonestInStep'
<1>0. ShapeOK /\ (Clean' <=> Clean)
  BY DEF BaseInv, Clean
<1>1. CASE xray' = xray
  BY <1>1 DEF HonestInStep, HonestOK, Clean, Up
<1>2. CASE xray' = file
  <2>1. ap.step = "live" => Between(xray', ap.eff, ap.todo)
    BY <1>0, <1>2, DeltaBooted DEF ShapeOK, Wrote
  <2>2. ap.step = "fill" => ~Up'
    BY <1>0, <1>2 DEF ShapeOK, Up
  <2>3. HonestOK => HonestOK'
    BY <1>2, <2>1, <2>2 DEF HonestOK
  <2> QED
    BY <1>0, <1>2, <2>3 DEF HonestInStep
<1> QED
  BY <1>1, <1>2

LEMMA StepHonest ==
    ASSUME BaseInv, BaseInv', HonestInStep, Step
    PROVE  HonestInStep'
<1>0. TypeOK /\ ShapeOK /\ ap \in Applier
  BY DEF BaseInv, TypeOK
<1>1. ASSUME NEW a \in Appliers, Acquire(a) PROVE HonestInStep'
  <2>1. ap.step = "free" /\ ap'.step = "write" /\ ~ap'.booted
    BY <1>0, <1>1, AcquireAt, Idle DEF Acquire
  <2>2. (Clean' <=> Clean) /\ UNCHANGED <<file, base, disk, xray>>
    BY <1>1 DEF Acquire, Clean, Misleading, xrayVars
  <2>3. HonestOK => HonestOK'
    BY <2>1, <2>2 DEF HonestOK, Up
  <2> QED
    BY <2>1, <2>2, <2>3 DEF HonestInStep
<1>2. CASE Truncate
  <2>1. /\ ap.step = "write" /\ ap' = [ap EXCEPT !.step = "fill"] /\ file' = Nothing
        /\ UNCHANGED <<base, disk, xray, causes>>
    BY <1>2 DEF Truncate, At, histVars
  <2>2. ap'.step = "fill" /\ ~ap'.booted
    BY <1>0, <2>1 DEF Applier, ShapeOK
  <2>3. HonestOK => HonestOK'
    BY <2>1, <2>2 DEF HonestOK, Up
  <2> QED
    BY <2>1, <2>2, <2>3 DEF HonestInStep, Clean
<1>3. CASE Fill
  <2>1. /\ ap.step = "fill" /\ ap' = [ap EXCEPT !.step = "nginx"] /\ file' = ap.eff
        /\ UNCHANGED <<base, disk, xray>>
    BY <1>3 DEF Fill, At
  <2>2. ap'.step = "nginx" /\ ~ap'.booted
    BY <1>0, <2>1 DEF Applier, ShapeOK
  <2>3. Clean' => Clean /\ ~(base = Nothing /\ disk = ap.eff)
    BY <1>3 DEF Fill, Clean, Misleading
  <2>4. HonestOK /\ Clean' => HonestOK'
    BY <2>1, <2>2, <2>3 DEF HonestOK, Up
  <2> QED
    BY <2>2, <2>3, <2>4 DEF HonestInStep
<1>4. CASE ApplyNginx
  <2>1. /\ ap.step = "nginx" /\ ap' = [ap EXCEPT !.step = "diff"]
        /\ UNCHANGED <<file, base, disk, xray>>
    BY <1>4 DEF ApplyNginx, At, xrayVars
  <2>2. ap'.step = "diff" /\ ~ap'.booted
    BY <1>0, <2>1 DEF Applier, ShapeOK
  <2>3. Clean' <=> Clean
    BY <1>4 DEF ApplyNginx, NginxApplied, Clean, Misleading
  <2>4. HonestOK => HonestOK'
    BY <2>1, <2>2 DEF HonestOK, Up
  <2> QED
    BY <2>2, <2>3, <2>4 DEF HonestInStep
<1>5. CASE Diff
  <2>1. /\ ap.step = "diff" /\ file = ap.eff /\ ~ap.booted
        /\ UNCHANGED <<file, base, disk, xray, causes>>
    BY <1>0, <1>5 DEF Diff, At, xrayVars, histVars, ShapeOK, Wrote
  <2>2. /\ ap'.eff = ap.eff /\ ~ap'.booted
        /\ \/ /\ base # Nothing /\ Skeleton(base) = Skeleton(ap.eff)
              /\ ap'.step = "live" /\ ap'.todo = Delta(base, ap.eff)
           \/ /\ ~(base # Nothing /\ Skeleton(base) = Skeleton(ap.eff))
              /\ ap'.step = "restart" /\ ap'.todo = {}
    BY <1>0, <1>5, <2>1, DiffAt
  <2>3. ASSUME HonestOK PROVE HonestOK'
    <3>1. CASE ap'.step = "live"
      <4>1. Orderly(ap.eff, ap'.todo)
        BY <2>2, <3>1, DeltaBegins
      <4>2. Up => Between(xray, ap.eff, ap'.todo)
        BY <2>1, <2>2, <2>3, <3>1, DeltaBegins DEF HonestOK
      <4> QED
        BY <2>1, <2>2, <2>3, <3>1, <4>1, <4>2 DEF HonestOK, Up
    <3>2. CASE ap'.step = "restart"
      <4>1. disk # file
        BY <2>1, <2>2, <2>3, <3>2 DEF HonestOK
      <4> QED
        BY <2>1, <2>3, <3>2, <4>1 DEF HonestOK, Up
    <3> QED
      BY <2>2, <3>1, <3>2
  <2> QED
    BY <2>1, <2>2, <2>3 DEF HonestInStep, Clean
<1>6. ASSUME NEW call \in Calls, Call(call) PROVE HonestInStep'
  <2>1. /\ ap.step = "live" /\ file = ap.eff /\ ~ap.booted /\ ap.eff \in Conf
        /\ UNCHANGED <<file, base, disk, causes>> /\ Due(call, ap.todo, ap.eff)
    BY <1>0, <1>6 DEF Call, At, histVars, ShapeOK, Wrote
  <2>2. /\ ap'.eff = ap.eff /\ ~ap'.booted /\ call \in ap.todo
        /\ \/ /\ Accepts(xray, call) /\ xray \in Conf /\ xray' = Called(xray, call, ap.eff)
              /\ ap'.step = "live" /\ ap'.todo = ap.todo \ {call}
           \/ ap'.step = "restart" /\ ap'.todo = {}
    BY <1>0, <1>6, <2>1, CallAt
  <2>3. ASSUME HonestOK PROVE HonestOK'
    <3>1. base # ap.eff /\ disk # file
      BY <2>1, <2>2, <2>3, DeltaSelf DEF HonestOK
    <3>2. CASE ap'.step = "restart"
      BY <2>1, <2>3, <3>1, <3>2 DEF HonestOK
    <3>3. CASE ap'.step = "live"
      <4>1. ap.todo \in SUBSET Calls /\ xray # Nothing
        BY <1>0, <2>2, <3>3, ConfIsSome DEF Applier
      <4>2. Between(xray, ap.eff, ap.todo) /\ Orderly(ap.eff, ap.todo)
        BY <2>1, <2>3, <4>1 DEF HonestOK, Up
      <4>3. call[3] = "add" => <<call[1], call[2], "remove">> \notin ap.todo
        BY <2>1 DEF Due
      <4>4. /\ Between(xray', ap.eff, ap.todo \ {call})
            /\ Orderly(ap.eff, ap.todo \ {call})
        BY <2>1, <2>2, <3>3, <4>1, <4>2, <4>3, DeltaGoesOn
      <4>5. ap'.todo \subseteq Delta(base, ap.eff)
        BY <2>1, <2>2, <2>3, <3>3 DEF HonestOK
      <4> QED
        BY <2>1, <2>2, <2>3, <3>1, <3>3, <4>4, <4>5 DEF HonestOK
    <3> QED
      BY <2>2, <3>2, <3>3
  <2> QED
    BY <2>1, <2>2, <2>3 DEF HonestInStep, Clean
<1>7. CASE LiveDone
  <2>1. /\ ap.step = "live" /\ file = ap.eff /\ ~ap.booted /\ ap.eff \in Conf /\ ap.todo = {}
        /\ UNCHANGED <<file, base, disk, xray, causes>> /\ ap' = [ap EXCEPT !.step = "commit"]
    BY <1>0, <1>7 DEF LiveDone, At, xrayVars, histVars, ShapeOK, Wrote
  <2>2. ap'.step = "commit" /\ ~ap'.booted
    BY <1>0, <2>1 DEF Applier
  <2>3. HonestOK /\ Up => xray = file
    <3>1. Up => xray \in Conf
      BY <1>0 DEF TypeOK, Up
    <3> QED
      BY <2>1, <3>1, DeltaEnds DEF HonestOK
  <2>4. HonestOK => HonestOK'
    BY <2>1, <2>2, <2>3 DEF HonestOK, Up
  <2> QED
    BY <2>1, <2>2, <2>4 DEF HonestInStep, Clean
<1>8. CASE Restart
  <2>1. /\ ap.step = "restart" /\ xray' = file /\ ap'.step = "commit"
        /\ UNCHANGED <<file, base, disk, causes>>
    BY <1>0, <1>8, RestartAt DEF Restart, At, histVars, Booted
  <2>2. HonestOK => HonestOK'
    BY <2>1 DEF HonestOK
  <2> QED
    BY <2>1, <2>2 DEF HonestInStep, Clean
<1>9. CASE WriteFails \/ RestartFails
  <2>1. ~Clean' /\ Release /\ ap.by # "none"
    BY <1>9 DEF WriteFails, RestartFails, Clean, Misleading, At
  <2>2. ~ap'.booted
    BY <1>0, <2>1, ReleaseAt
  <2> QED
    BY <2>1, <2>2 DEF HonestInStep
<1>10. CASE Commit
  <2>1. /\ ap.step = "commit" /\ ap.by # "none" /\ file = ap.eff /\ Release
        /\ base' = ap.eff /\ UNCHANGED <<file, xray>>
    BY <1>0, <1>10 DEF Commit, At, ShapeOK, Wrote
  <2>2. ap'.step = "free" /\ ~ap'.booted
    BY <1>0, <2>1, ReleaseAt
  <2>3. Clean' => disk' = ap.eff /\ (ap.booted \/ Clean)
    BY <1>10 DEF Commit, Clean, Misleading
  <2>4. ASSUME Clean' PROVE Up => xray = file
    BY <2>1, <2>3, <2>4 DEF HonestInStep, HonestOK
  <2>5. Clean' => HonestOK'
    BY <2>1, <2>2, <2>3, <2>4 DEF HonestOK, Up
  <2> QED
    BY <2>2, <2>5 DEF HonestInStep
<1> QED
  BY <1>1, <1>2, <1>3, <1>4, <1>5, <1>6, <1>7, <1>8, <1>9, <1>10 DEF Step

LEMMA HonestNext ==
    ASSUME BaseInv, HonestInStep, [Next]_vars
    PROVE  HonestInStep'
<1>0. BaseInv'
  BY BaseNext
<1>1. CASE UNCHANGED vars
  BY <1>1, XrayHonest DEF vars
<1>2. CASE (\E p \in Pushed : Push(p)) \/ NewCert \/ CertTick \/ CertRestart \/ XrayBoots
  BY <1>2, XrayHonest DEF Push, NewCert, CertTick, CertRestart, XrayBoots, xrayVars, histVars, Booted
<1>3. CASE AgentStop
  <2>1. base' = Seeded /\ ap' = Free /\ UNCHANGED <<file, disk, xray>>
    BY <1>3 DEF AgentStop
  <2>2. Clean' => Clean
    BY <1>3 DEF AgentStop, NginxApplied, Clean, Misleading
  <2>3. ap'.step = "free" /\ ~ap'.booted
    BY <2>1, FreeShape
  <2>4. HonestOK => HonestOK'
    BY <2>1, <2>3 DEF HonestOK, Seeded, Up
  <2> QED
    BY <2>2, <2>3, <2>4 DEF HonestInStep
<1> QED
  BY <1>0, <1>1, <1>2, <1>3, StepHonest DEF Next

LEMMA HonestInit == Init => HonestInStep
<1> SUFFICES ASSUME Init PROVE HonestInStep
  OBVIOUS
<1>1. xray = file /\ base \in {Nothing, file} /\ disk = base
  BY InitConf
<1>2. ap.step = "free" /\ ~ap.booted
  BY FreeShape DEF Init
<1> QED
  BY <1>1, <1>2 DEF HonestInStep, HonestOK

\* Between two applies the baseline is what Xray runs and what config.json says, however
\* the agent was stopped and Xray restarted, unless a failure the code does not retry is
\* unrepaired (baseline.go, xray.go applyConfig).
THEOREM BaselineTrue == Spec => []BaselineHonest
<1>1. BaseInv /\ HonestInStep => BaselineHonest
  <2> SUFFICES ASSUME BaseInv, HonestInStep, base # Nothing, ap.by = "none", Up,
                      causes \cap Misleading = {}
               PROVE  base = xray /\ base = file
    BY DEF BaselineHonest
  <2>1. HonestOK /\ ap.step = "free"
    BY Idle DEF HonestInStep, Clean
  <2> QED
    BY <2>1 DEF HonestOK
<1> QED
  BY <1>1, BaseAlways, HonestInit, HonestNext, PTL DEF Spec

-----------------------------------------------------------------------------
(* Following the panel. *)

\* applyConfig goes on from step to step.
LEMMA MoveFollows ==
    ASSUME FollowsInStep, ap.by # "none", ap'.by = ap.by, ap'.eff = ap.eff,
           UNCHANGED <<cert, seen, last, req, told>>, "stale" \in causes' <=> "stale" \in causes,
           "nginx" \notin causes' => nginx' = nconf',
           "nginx" \notin causes' /\ ap'.step \in Wrote \ {"nginx"} => nconf' = ap.eff.skel
    PROVE  FollowsInStep'
BY DEF FollowsInStep, Lagging

\* ... and ends.
LEMMA EndFollows ==
    ASSUME BaseInv, FollowsInStep, ap.by # "none", Release,
           UNCHANGED <<cert, seen, last, told, nconf, nginx>>,
           "stale" \in causes' <=> "stale" \in causes, "nginx" \in causes' <=> "nginx" \in causes,
           "failed" \notin causes' => base' = ap.eff /\ file' = ap.eff /\ ap.step = "commit"
    PROVE  FollowsInStep'
<1>0. TypeOK /\ ShapeOK
  BY DEF BaseInv
<1>1. /\ ap'.by = "none" /\ ap'.step = "free" /\ req'[ap.by] = Nothing /\ ap.by \in Appliers
      /\ \A a \in Appliers : a # ap.by => req'[a] = req[a]
  BY <1>0, ReleaseAt
<1>2. ap.eff # Nothing /\ last = req[ap.by] /\ ap.eff.skel = last.skel
  BY <1>0, ConfIsSome DEF ShapeOK
<1>3. /\ req'["session"] # Nothing => told' = req'["session"]
      /\ "stale" \notin causes' /\ told' # Nothing /\ req'["session"] = Nothing => last' = told'
  BY <1>1, <1>2 DEF FollowsInStep, Appliers
<1>4. Lagging => Lagging'
  BY <1>1 DEF Lagging, Appliers
<1>5. "failed" \notin causes' =>
          /\ base' # Nothing /\ file' = base'
          /\ file' = Effective(last', cert' # 0) \/ Lagging'
          /\ "nginx" \notin causes' => nconf' = last'.skel
  <2>1. ap.eff = Effective(last, cert # 0) \/ Lagging
    BY DEF FollowsInStep
  <2>2. "nginx" \notin causes /\ ap.step = "commit" => nconf = ap.eff.skel
    BY DEF FollowsInStep, Wrote
  <2> QED
    BY <1>2, <1>4, <2>1, <2>2
<1> QED
  BY <1>1, <1>3, <1>5 DEF FollowsInStep, Wrote

LEMMA StepFollows ==
    ASSUME BaseInv, FollowsInStep, Step
    PROVE  FollowsInStep'
<1>0. TypeOK /\ ShapeOK /\ ap \in Applier
  BY DEF BaseInv, TypeOK
<1>1. ASSUME NEW a \in Appliers, Acquire(a) PROVE FollowsInStep'
  <2>1. /\ ap'.by = a /\ ap'.step = "write" /\ ap'.eff = Effective(req[a], cert # 0)
    BY <1>0, <1>1, AcquireAt
  <2>2. /\ last' = req[a] /\ req[a] # Nothing /\ UNCHANGED <<cert, req, nconf, nginx, told>>
        /\ ("nginx" \in causes' <=> "nginx" \in causes)
        /\ ("stale" \notin causes' /\ a # "session" => "stale" \notin causes /\ req[a] = last)
    BY <1>1 DEF Acquire
  <2>3. a # "none"
    BY DEF Appliers
  <2> QED
    BY <2>1, <2>2, <2>3 DEF FollowsInStep, Wrote
<1>2. CASE Truncate \/ Fill \/ Diff \/ LiveDone \/ (\E call \in Calls : Call(call))
  <2>1. /\ ap.by # "none" /\ UNCHANGED <<cert, seen, last, req, told, nconf, nginx>>
        /\ ("stale" \in causes' <=> "stale" \in causes)
        /\ ("nginx" \in causes' <=> "nginx" \in causes)
    BY <1>2 DEF Truncate, Fill, Diff, LiveDone, Call, At, histVars
  <2>2. /\ ap'.by = ap.by /\ ap'.eff = ap.eff
        /\ ap'.step \in Wrote \ {"nginx"} => ap.step \in Wrote \ {"nginx"}
    <3>1. CASE Truncate \/ Fill
      <4>1. PICK s \in {"fill", "nginx"} : ap' = [ap EXCEPT !.step = s]
        BY <3>1 DEF Truncate, Fill
      <4> QED
        BY <1>0, <4>1, Moved DEF Steps, Wrote
    <3>2. CASE Diff
      BY <1>0, <3>2, DiffAt DEF Diff, At, Wrote
    <3>3. CASE LiveDone
      BY <1>0, <3>3, Moved DEF Steps, Wrote, LiveDone, At
    <3>4. ASSUME NEW call \in Calls, Call(call)
          PROVE  ap'.by = ap.by /\ ap'.eff = ap.eff /\ ap.step \in Wrote \ {"nginx"}
      <4>1. ap.step = "live" /\ ap.eff \in Conf
        BY <1>0, <3>4 DEF Call, At, ShapeOK
      <4> QED
        BY <1>0, <3>4, <4>1, CallAt DEF Wrote
    <3> QED
      BY <1>2, <3>1, <3>2, <3>3, <3>4
  <2>3. "nginx" \notin causes' /\ ap'.step \in Wrote \ {"nginx"} => nconf' = ap.eff.skel
    BY <2>1, <2>2 DEF FollowsInStep
  <2>4. "nginx" \notin causes' => nginx' = nconf'
    BY <2>1 DEF FollowsInStep
  <2> QED
    BY <2>1, <2>2, <2>3, <2>4, MoveFollows
<1>3. CASE Restart
  <2>1. /\ ap.by # "none" /\ UNCHANGED <<cert, seen, last, req, told, nconf, nginx, causes>>
        /\ ap.step = "restart"
    BY <1>3 DEF Restart, At, histVars
  <2>2. ap'.by = ap.by /\ ap'.eff = ap.eff
    BY <1>0, <1>3, RestartAt
  <2>3. "nginx" \notin causes' => nginx' = nconf' /\ nconf' = ap.eff.skel
    BY <2>1 DEF FollowsInStep, Wrote
  <2> QED
    BY <2>1, <2>2, <2>3, MoveFollows
<1>4. CASE ApplyNginx
  <2>1. /\ ap.by # "none" /\ UNCHANGED <<cert, seen, last, req, told>>
        /\ ap' = [ap EXCEPT !.step = "diff"] /\ NginxApplied(ap.eff.skel, causes)
    BY <1>4 DEF ApplyNginx, At
  <2>2. ap'.by = ap.by /\ ap'.eff = ap.eff
    BY <1>0, <2>1, Moved DEF Steps
  <2>3. /\ ("stale" \in causes' <=> "stale" \in causes)
        /\ ("nginx" \notin causes' => nginx' = nconf' /\ nconf' = ap.eff.skel)
    BY <2>1 DEF NginxApplied, FollowsInStep
  <2> QED
    BY <2>1, <2>2, <2>3, MoveFollows
<1>5. CASE WriteFails \/ RestartFails \/ Commit
  <2>1. /\ ap.by # "none" /\ Release /\ UNCHANGED <<cert, seen, last, told, nconf, nginx>>
        /\ ("stale" \in causes' <=> "stale" \in causes)
        /\ ("nginx" \in causes' <=> "nginx" \in causes)
    BY <1>5 DEF WriteFails, RestartFails, Commit, At, Misleading
  <2>2. "failed" \notin causes' => base' = ap.eff /\ file' = ap.eff /\ ap.step = "commit"
    BY <1>0, <1>5 DEF WriteFails, RestartFails, Commit, At, ShapeOK, Wrote
  <2> QED
    BY <2>1, <2>2, EndFollows
<1> QED
  BY <1>1, <1>2, <1>3, <1>4, <1>5 DEF Step

LEMMA FollowsNext ==
    ASSUME BaseInv, FollowsInStep, [Next]_vars
    PROVE  FollowsInStep'
<1>0. TypeOK /\ ShapeOK /\ ap \in Applier
  BY DEF BaseInv, TypeOK
<1>b. ap.by # "none" => ap.by \in Appliers /\ req[ap.by] # Nothing /\ last # Nothing
  BY <1>0 DEF ShapeOK, Applier
<1>1. ASSUME NEW p \in Pushed, Push(p) PROVE FollowsInStep'
  <2>1. p # Nothing /\ "session" \in Appliers /\ "cert" \in Appliers
    BY NothingAssumption DEF Appliers
  <2>2. /\ told' = p /\ req'["session"] = p /\ req'["cert"] = req["cert"]
        /\ UNCHANGED <<cert, seen, last, ap, file, base, nconf, nginx, causes>>
    BY <1>0, <1>1, <2>1 DEF Push, TypeOK, xrayVars
  <2> QED
    BY <2>1, <2>2 DEF FollowsInStep, Lagging
<1>2. CASE NewCert
  <2>1. UNCHANGED <<seen, last, req, ap, file, base, nconf, nginx, told, causes>> /\ seen' # cert'
    BY <1>0, <1>2, ApplyBounds DEF NewCert, xrayVars, ShapeOK, TypeOK
  <2> QED
    BY <2>1 DEF FollowsInStep, Lagging
<1>3. CASE CertTick
  <2>1. /\ UNCHANGED <<cert, last, ap, file, base, nconf, nginx, told, causes>>
        /\ req'["cert"] = last /\ last # Nothing /\ req'["session"] = req["session"]
        /\ req["cert"] = Nothing
    BY <1>0, <1>3 DEF CertTick, xrayVars, histVars, TypeOK, Appliers
  <2>2. Lagging'
    BY <1>b, <2>1 DEF Lagging
  <2> QED
    BY <2>1, <2>2 DEF FollowsInStep
<1>4. CASE CertRestart
  <2>1. UNCHANGED <<cert, last, req, ap, nconf, nginx, told, causes>> /\ ap.by = "none" /\ last = Nothing
    BY <1>b, <1>4 DEF CertRestart, histVars
  <2> QED
    BY <2>1 DEF FollowsInStep
<1>5. CASE XrayBoots \/ UNCHANGED vars
  BY <1>5 DEF XrayBoots, vars, FollowsInStep, Lagging
<1>6. CASE AgentStop
  <2>1. last' = Nothing /\ told' = Nothing /\ ap' = Free /\ req' = [a \in Appliers |-> Nothing]
    BY <1>6 DEF AgentStop
  <2>2. "nginx" \notin causes' => nginx' = nconf'
    BY <1>6 DEF AgentStop, NginxApplied, FollowsInStep
  <2>3. ap'.by = "none" /\ ap'.step = "free" /\ req'["session"] = Nothing
    BY <2>1, FreeShape DEF Appliers
  <2> QED
    BY <2>1, <2>2, <2>3 DEF FollowsInStep, Wrote
<1> QED
  BY <1>1, <1>2, <1>3, <1>4, <1>5, <1>6, StepFollows DEF Next

LEMMA FollowsInit == Init => FollowsInStep
<1> SUFFICES ASSUME Init PROVE FollowsInStep
  OBVIOUS
<1>1. /\ file \in Conf /\ nginx = nconf
      /\ last # Nothing => base = file /\ file = Effective(last, cert # 0) /\ nconf = last.skel
  BY InitConf
<1>2. ap.by = "none" /\ ap.step = "free" /\ req["session"] = Nothing /\ told = last
  BY FreeShape DEF Init, Appliers
<1> QED
  BY <1>1, <1>2, ConfIsSome DEF FollowsInStep, Wrote

\* Once everything received has been applied, Xray runs the config received last, with
\* TLS-Vision exactly if there is a certificate, and nginx routes its serverName, unless a
\* failure the code does not retry is unrepaired (xray.go applyConfig, certwatch.go).
THEOREM PanelFollowed == Spec => []FollowsPanel
<1>1. BaseInv /\ HonestInStep /\ FollowsInStep => FollowsPanel
  <2> SUFFICES ASSUME BaseInv, HonestInStep, FollowsInStep, Resting, told # Nothing,
                      causes \cap {"failed", "stale"} = {}
               PROVE  /\ "nginx" \notin causes => nginx = told.skel
                      /\ causes \cap Misleading = {} /\ Up /\ seen = cert
                            => xray = Effective(told, cert # 0)
    BY DEF FollowsPanel
  <2>1. ap.by = "none" /\ req["session"] = Nothing /\ req["cert"] = Nothing
    BY DEF Resting, Appliers, BaseInv, ShapeOK, TypeOK, Applier
  <2>2. last = told /\ base # Nothing /\ file = base
    BY <2>1 DEF FollowsInStep
  <2>3. "nginx" \notin causes => nginx = told.skel
    BY <2>1, <2>2 DEF FollowsInStep
  <2>4. seen = cert => file = Effective(told, cert # 0)
    BY <2>1, <2>2 DEF FollowsInStep, Lagging
  <2>5. Clean /\ Up => xray = file
    BY <2>1, <2>2, Idle DEF HonestInStep, HonestOK
  <2> QED
    BY <2>3, <2>4, <2>5 DEF Clean
<1> QED
  BY <1>1, BaseAlways, HonestInit, HonestNext, FollowsInit, FollowsNext, PTL DEF Spec

-----------------------------------------------------------------------------
(* The restart of an idle agent. *)

\* applyConfig under way with the baseline's own config goes on without a restart.
LEMMA StepQuiet ==
    ASSUME BaseInv, QuietInStep, quiet, Step
    PROVE  QuietInStep'
<1>0. TypeOK /\ ShapeOK /\ ap \in Applier /\ base \in Conf \cup {Nothing}
  BY DEF BaseInv, TypeOK
<1>1. /\ seen = cert /\ req["cert"] = Nothing /\ base # Nothing
      /\ req["session"] # Nothing => Effective(req["session"], cert # 0) = base
      /\ ap.by = "none" => file \in {base, Nothing}
      /\ ap.by # "none" => ap.eff = base /\ ap.todo = {} /\ ap.step # "restart"
  BY DEF QuietInStep
<1>2. UNCHANGED <<cert, seen, quiet>>
  BY DEF Step, Acquire, Truncate, Fill, WriteFails, ApplyNginx, Diff, Call, LiveDone, Restart,
     RestartFails, Commit, histVars
<1>3. ASSUME NEW a \in Appliers, Acquire(a) PROVE QuietInStep'
  <2>1. ap'.by = a /\ ap'.step = "write" /\ ap'.eff = Effective(req[a], cert # 0) /\ ap'.todo = {}
    BY <1>0, <1>3, AcquireAt
  <2>2. req[a] # Nothing /\ UNCHANGED <<req, base>>
    BY <1>3 DEF Acquire, xrayVars
  <2>3. a = "session"
    BY <1>1, <2>2 DEF Appliers
  <2> QED
    BY <1>1, <1>2, <2>1, <2>2, <2>3 DEF QuietInStep
<1>4. ASSUME NEW s \in Steps \ {"restart"}, ap' = [ap EXCEPT !.step = s], ap.by # "none",
             UNCHANGED <<req, base>>
      PROVE  QuietInStep'
  <2>1. ap'.by = ap.by /\ ap'.step = s /\ ap'.eff = ap.eff /\ ap'.todo = ap.todo
    BY <1>0, <1>4, Moved
  <2> QED
    BY <1>1, <1>2, <1>4, <2>1 DEF QuietInStep
<1>5. CASE Truncate \/ Fill \/ ApplyNginx \/ LiveDone
  <2>1. PICK s \in {"fill", "nginx", "diff", "commit"} : ap' = [ap EXCEPT !.step = s]
    BY <1>5 DEF Truncate, Fill, ApplyNginx, LiveDone
  <2>2. ap.by # "none" /\ UNCHANGED <<req, base>> /\ s \in Steps \ {"restart"}
    BY <1>5 DEF Truncate, Fill, ApplyNginx, LiveDone, At, xrayVars, Steps
  <2> QED
    BY <1>4, <2>1, <2>2
<1>6. CASE Diff
  <2>1. ap.by # "none" /\ UNCHANGED <<req, base>>
    BY <1>6 DEF Diff, At, xrayVars
  <2>2. ap.eff = base /\ Delta(base, base) = {}
    BY <1>1, <2>1, DeltaSelf
  <2>3. ap'.by = ap.by /\ ap'.eff = ap.eff /\ ap'.step = "live" /\ ap'.todo = {}
    BY <1>0, <1>1, <1>6, <2>2, DiffAt
  <2> QED
    BY <1>1, <1>2, <2>1, <2>2, <2>3 DEF QuietInStep
<1>7. ASSUME NEW call \in Calls, Call(call) PROVE FALSE
  BY <1>1, <1>7 DEF Call, At
<1>8. CASE Restart \/ RestartFails
  BY <1>1, <1>8 DEF Restart, RestartFails, At
<1>9. CASE WriteFails \/ Commit
  <2>1. ap.by # "none" /\ Release /\ UNCHANGED file
    BY <1>9 DEF WriteFails, Commit, At, xrayVars
  <2>2. /\ ap'.by = "none" /\ ap.by \in Appliers /\ req'[ap.by] = Nothing
        /\ \A a \in Appliers : a # ap.by => req'[a] = req[a]
    BY <1>0, <2>1, ReleaseAt
  <2>3. base' = base /\ file \in {base, Nothing}
    BY <1>0, <1>1, <1>9, <2>1 DEF WriteFails, Commit, At, xrayVars, ShapeOK, Wrote
  <2>4. req'["cert"] = Nothing /\ req'["session"] \in {Nothing, req["session"]}
    BY <1>1, <2>2 DEF Appliers
  <2> QED
    BY <1>1, <1>2, <2>1, <2>2, <2>3, <2>4 DEF QuietInStep
<1> QED
  BY <1>3, <1>5, <1>6, <1>7, <1>8, <1>9 DEF Step

LEMMA QuietNext ==
    ASSUME BaseInv, HonestInStep, QuietInStep, [Next]_vars
    PROVE  QuietInStep'
<1>0. TypeOK /\ ShapeOK /\ ap \in Applier
  BY DEF BaseInv, TypeOK
<1>1. CASE Step
  <2>1. UNCHANGED quiet
    BY <1>1 DEF Step, Acquire, Truncate, Fill, WriteFails, ApplyNginx, Diff, Call, LiveDone,
       Restart, RestartFails, Commit, histVars
  <2> QED
    BY <1>1, <2>1, StepQuiet DEF QuietInStep
<1>2. ASSUME NEW p \in Pushed, Push(p) PROVE QuietInStep'
  <2>1. /\ req["session"] = Nothing /\ req'["session"] = p /\ req'["cert"] = req["cert"]
        /\ UNCHANGED <<cert, seen, ap, file, base>>
    BY <1>0, <1>2 DEF Push, TypeOK, xrayVars, Appliers
  <2>2. quiet' => quiet /\ Effective(p, cert # 0) = file
    BY <1>2, Zenon DEF Push
  <2>3. Effective(p, cert # 0) # Nothing
    BY EffectiveShape
  <2>4. quiet' => ap.by = "none"
    BY <1>0, <2>1, <2>2 DEF QuietInStep, ShapeOK, Applier, Appliers
  <2> QED
    BY <2>1, <2>2, <2>3, <2>4 DEF QuietInStep
<1>3. CASE NewCert \/ XrayBoots
  BY <1>3 DEF NewCert, XrayBoots, QuietInStep
<1>4. CASE CertTick \/ CertRestart
  BY <1>4 DEF CertTick, CertRestart, QuietInStep, histVars
<1>5. CASE UNCHANGED vars
  BY <1>5 DEF vars, QuietInStep
<1>6. CASE AgentStop
  <2>1. /\ seen' = cert /\ cert' = cert /\ file' = file /\ ap' = Free /\ base' = Seeded
        /\ req' = [a \in Appliers |-> Nothing]
    BY <1>6 DEF AgentStop
  <2>2. quiet' => ap.by = "none" /\ base # Nothing /\ causes = {}
    BY <1>6, Zenon DEF AgentStop
  <2>3. quiet' => HonestOK /\ ap.step = "free"
    BY <2>2, Idle DEF HonestInStep, Clean
  <2>4. quiet' => base' # Nothing /\ file = base'
    BY <2>1, <2>2, <2>3 DEF HonestOK, Seeded
  <2>5. ap'.by = "none" /\ req'["cert"] = Nothing /\ req'["session"] = Nothing
    BY <2>1, FreeShape DEF Appliers
  <2> QED
    BY <2>1, <2>4, <2>5 DEF QuietInStep
<1> QED
  BY <1>1, <1>2, <1>3, <1>4, <1>5, <1>6 DEF Next

\* After the restart of an idle agent, pushes of the config it had applied never take the
\* path that restarts Xray (baseline.go seed, live_grpc.go liveApply).
THEOREM RestartSeamless == Spec => []Seamless
<1>1. Init => QuietInStep
  BY DEF Init, QuietInStep
<1>2. BaseInv /\ QuietInStep => Seamless
  <2> SUFFICES ASSUME BaseInv, QuietInStep, quiet PROVE ap.step # "restart"
    BY DEF Seamless
  <2> QED
    BY Idle DEF QuietInStep
<1> QED
  BY <1>1, <1>2, BaseAlways, HonestInit, HonestNext, QuietNext, PTL DEF Spec
=============================================================================
