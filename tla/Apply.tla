------------------------------- MODULE Apply -------------------------------
(***************************************************************************)
(* How a node's agent makes Xray and nginx run a pushed configuration      *)
(* (internal/agent/xray.go applyConfig, live_grpc.go liveApply, baseline.go,*)
(* nginx.go applyNginx, certwatch.go watchCert).  Two goroutines apply     *)
(* configurations, the session's read loop and the certificate watcher;    *)
(* the mutex applyState.mu serialises them.                                *)
(*                                                                         *)
(* A configuration is its settings (skel, which also fixes the REALITY     *)
(* serverName), whether the TLS-Vision inbound is there, and for each of   *)
(* the two inbounds the users it admits.  The SHA-256 of config.json is    *)
(* the file's content itself.                                              *)
(***************************************************************************)
EXTENDS Integers, FiniteSets

CONSTANTS
    Names,      \* user emails
    Ids,        \* UUIDs
    NoId,       \* no such user
    ClientSets, \* the client lists the panel builds: which user has which UUID
    Skels,      \* everything else in a config
    Nothing,    \* no config: absent, empty or unreadable
    MaxPushes,  \* bound: configs the panel pushes
    MaxCerts,   \* bound: certificates issued
    Faults      \* which FaultKinds the run injects

FaultKinds == {"agentStop", "xrayCrash", "rpcError", "restartError", "writeError",
               "persistError", "nginxError"}

ASSUME NoIdAssumption == NoId \notin Ids
ASSUME ApplyBounds == MaxPushes \in Nat /\ MaxCerts \in Nat
ASSUME ApplyFaults == Faults \subseteq FaultKinds

Tags     == {"tls", "reality"}
UserMaps == [Names -> Ids \cup {NoId}]
NoUsers  == [n \in Names |-> NoId]

ASSUME ClientSetsAssumption == ClientSets \subseteq UserMaps

Pushed == [skel: Skels, users: ClientSets]
Conf   == [skel: Skels, tls: BOOLEAN, at: [Tags -> UserMaps]]

ASSUME NothingAssumption == Nothing \notin Pushed \cup Conf \cup Skels

VARIABLES
    cert,       \* the certificate file: 0 absent, else which one
    seen,       \* the stamp watchCert compared last
    last,       \* applyState.last
    req,        \* req[a]: the config goroutine a is applying or about to
    ap,         \* the holder of applyState.mu and where it is
    file,       \* config.json; Nothing while it is truncated
    base,       \* liveState: what the agent believes Xray runs
    disk,       \* xray-baseline.json
    xray,       \* what Xray runs; Nothing while it is down
    nconf,      \* the serverName nginx.conf routes to REALITY (Nothing: none)
    nginx,      \* the one nginx runs with
    pushes,     \* configs pushed so far
    (* history, read by no action of the system *)
    told,       \* the config received last by this agent process
    quiet,      \* an update: the agent restarted idle and only the same config came
    causes      \* failures whose effect has not been repaired yet

xrayVars == <<file, base, disk, xray>>
histVars == <<told, quiet, causes>>
vars == <<cert, seen, last, req, ap, file, base, disk, xray, nconf, nginx, pushes,
          told, quiet, causes>>

Appliers   == {"session", "cert"}
CauseKinds == {"failed", "persist", "relapse", "stale", "nginx"}
Misleading == {"failed", "persist", "relapse"}  \* the baseline may be wrong
Steps      == {"free", "write", "fill", "nginx", "diff", "live", "restart", "commit"}

\* One gRPC call: an inbound, a user, and what to do.
Calls == Tags \X Names \X {"add", "remove"}

Applier == [by: Appliers \cup {"none"}, step: Steps, eff: Conf \cup {Nothing},
            todo: SUBSET Calls, booted: BOOLEAN]

Free == [by |-> "none", step |-> "free", eff |-> Nothing, todo |-> {}, booted |-> FALSE]

-----------------------------------------------------------------------------
(* The operators the code is built from. *)

\* stripTLSIfNoCert.
Effective(p, hasCert) ==
    [skel |-> p.skel, tls |-> hasCert,
     at |-> [t \in Tags |-> IF t = "tls" /\ ~hasCert THEN NoUsers ELSE p.users]]

\* parseClients: the config with its client lists emptied.
Skeleton(c) == <<c.skel, c.tls>>

\* What liveApply has to call to get from one client set to another.
Removed(old, new) ==
    {k \in Tags \X Names : old.at[k[1]][k[2]] \notin {NoId, new.at[k[1]][k[2]]}}
Added(old, new) ==
    {k \in Tags \X Names : new.at[k[1]][k[2]] \notin {NoId, old.at[k[1]][k[2]]}}

\* Bug: only who is in the set is compared, not the UUIDs.
BugDelta(old, new) ==
    {<<k[1], k[2], "remove">> : k \in {k \in Removed(old, new) : new.at[k[1]][k[2]] = NoId}}
    \cup {<<k[1], k[2], "add">> : k \in {k \in Added(old, new) : old.at[k[1]][k[2]] = NoId}}

Delta(old, new) == {<<k[1], k[2], "remove">> : k \in Removed(old, new)}
                   \cup {<<k[1], k[2], "add">> : k \in Added(old, new)}

\* The order of the calls: TLS before REALITY; in an inbound the additions
\* before the removals, a changed user's removal right before its addition.
Due(call, todo, new) ==
    LET t == call[1]
        n == call[2]
        left(op) == {x \in todo : x[1] = t /\ x[3] = op}
        changing == {x \in left("add") : <<t, x[2], "remove">> \notin todo
                                         /\ base.at[t][x[2]] # NoId}
    IN  /\ t = "reality" => \A x \in todo : x[1] = "reality"
        /\ call[3] = "remove" => changing = {}
                                 /\ (new.at[t][n] = NoId => left("add") = {})
        /\ call[3] = "add" => <<t, n, "remove">> \notin todo
                              /\ changing \subseteq {call}

\* A container start: Xray reads config.json and fails on a truncated one.
Booted(f) == f

\* Xray's HandlerService refuses to add a user it has or remove one it has not.
Accepts(x, call) ==
    /\ x # Nothing
    /\ call[3] = "add" <=> x.at[call[1]][call[2]] = NoId

Called(x, call, new) ==
    [x EXCEPT !.at[call[1]][call[2]] = IF call[3] = "add" THEN new.at[call[1]][call[2]]
                                                         ELSE NoId]

\* Bug: the hash is not compared.
BugSeeded == disk

\* seed: a recorded baseline counts only if its hash is that of config.json.
Seeded == IF disk = file THEN disk ELSE Nothing

-----------------------------------------------------------------------------
\* A node as install.sh leaves it: no config received yet.
Fresh ==
    /\ file \in {Effective([skel |-> k, users |-> NoUsers], cert # 0) : k \in Skels}
    /\ last = Nothing
    /\ base = Nothing
    /\ disk = Nothing
    /\ nconf = Nothing

\* A node that has applied what it was told.
Settled(p) ==
    /\ file = Effective(p, cert # 0)
    /\ last = p
    /\ base = file
    /\ disk = file
    /\ nconf = p.skel

Init ==
    /\ cert \in {0, 1} \cap (0..MaxCerts)
    /\ seen = cert
    /\ Fresh \/ \E p \in Pushed : Settled(p)
    /\ req = [a \in Appliers |-> Nothing]
    /\ ap = Free
    /\ xray = file
    /\ nginx = nconf
    /\ pushes = 0
    /\ told = last
    /\ quiet = FALSE
    /\ causes = {}

-----------------------------------------------------------------------------
(* What reaches the agent. *)

\* The session's read loop receives a config frame.
Push(p) ==
    /\ pushes < MaxPushes
    /\ req["session"] = Nothing
    /\ pushes' = pushes + 1
    /\ req' = [req EXCEPT !["session"] = p]
    /\ told' = p
    /\ quiet' = (quiet /\ Effective(p, cert # 0) = file)
    /\ UNCHANGED <<cert, seen, last, ap, xrayVars, nconf, nginx, causes>>

\* The acme sidecar or the operator installs a certificate.
NewCert ==
    /\ cert < MaxCerts
    /\ cert' = cert + 1
    /\ quiet' = FALSE
    /\ UNCHANGED <<seen, last, req, ap, xrayVars, nconf, nginx, pushes, told, causes>>

\* Bug: the change is noted and nothing re-applied.
BugCertTick ==
    /\ req["cert"] = Nothing
    /\ cert # 0
    /\ seen # cert
    /\ last # Nothing
    /\ seen' = cert
    /\ UNCHANGED <<cert, last, req, ap, xrayVars, nconf, nginx, pushes, histVars>>

\* watchCert's tick sees a changed stamp and picks up the last config.  The
\* mutex is taken later, in Acquire.
CertTick ==
    /\ req["cert"] = Nothing
    /\ cert # 0
    /\ seen # cert
    /\ last # Nothing
    /\ seen' = cert
    /\ req' = [req EXCEPT !["cert"] = last]
    /\ UNCHANGED <<cert, last, ap, xrayVars, nconf, nginx, pushes, histVars>>

\* No config has arrived yet: a plain restart, without the mutex.
CertRestart ==
    /\ req["cert"] = Nothing
    /\ cert # 0
    /\ seen # cert
    /\ last = Nothing
    /\ seen' = cert
    /\ \/ xray' = Booted(file)
       \/ "restartError" \in Faults /\ xray' = xray
    /\ UNCHANGED <<cert, last, req, ap, file, base, disk, nconf, nginx, pushes, histVars>>

-----------------------------------------------------------------------------
(* applyConfig. *)

Release == /\ ap' = Free
           /\ req' = [req EXCEPT ![ap.by] = Nothing]

At(step) == ap.by # "none" /\ ap.step = step

\* Take the mutex, setLastConfig, stripTLSIfNoCert.
Acquire(a) ==
    /\ ap.by = "none"
    /\ req[a] # Nothing
    /\ last' = req[a]
    /\ ap' = [Free EXCEPT !.by = a, !.step = "write",
                          !.eff = Effective(req[a], cert # 0)]
    /\ causes' = IF a = "session" THEN causes \ {"stale"}
                 ELSE IF req[a] # last THEN causes \cup {"stale"} ELSE causes
    /\ UNCHANGED <<cert, seen, req, xrayVars, nconf, nginx, pushes, told, quiet>>

\* writeConfig overwrites in place: truncate, then write.
Truncate ==
    /\ At("write")
    /\ file' = Nothing
    /\ ap' = [ap EXCEPT !.step = "fill"]
    /\ UNCHANGED <<cert, seen, last, req, base, disk, xray, nconf, nginx, pushes, histVars>>

\* ("relapse": an agent that does not know what Xray runs writes back the
\* config of an older baseline that is still on disk)
Fill ==
    /\ At("fill")
    /\ file' = ap.eff
    /\ ap' = [ap EXCEPT !.step = "nginx"]
    /\ causes' = IF base = Nothing /\ disk = ap.eff THEN causes \cup {"relapse"}
                                                   ELSE causes
    /\ UNCHANGED <<cert, seen, last, req, base, disk, xray, nconf, nginx, pushes,
                   told, quiet>>

\* A write error ends applyConfig; nobody retries.
WriteFails ==
    /\ "writeError" \in Faults
    /\ At("fill")
    /\ Release
    /\ causes' = causes \cup {"failed"}
    /\ UNCHANGED <<cert, seen, last, xrayVars, nconf, nginx, pushes, told, quiet>>

\* applyNginx(sni): rewrite nginx.conf and restart nginx only if it changed.
\* (cs: the causes otherwise)
NginxApplied(sni, cs) ==
    \/ nconf = sni /\ UNCHANGED <<nconf, nginx>> /\ causes' = cs
    \/ /\ nconf # sni
       /\ nconf' = sni
       /\ nginx' = sni
       /\ causes' = cs \ {"nginx"}
    \/ /\ "nginxError" \in Faults
       /\ nconf # sni
       /\ nconf' \in {nconf, sni}
       /\ UNCHANGED nginx
       /\ causes' = cs \cup {"nginx"}

ApplyNginx ==
    /\ At("nginx")
    /\ NginxApplied(ap.eff.skel, causes)
    /\ ap' = [ap EXCEPT !.step = "diff"]
    /\ UNCHANGED <<cert, seen, last, req, xrayVars, pushes, told, quiet>>

\* liveApply: only users changed since the baseline, or a restart it is.
Diff ==
    /\ At("diff")
    /\ ap' = IF base # Nothing /\ Skeleton(base) = Skeleton(ap.eff)
             THEN [ap EXCEPT !.step = "live", !.todo = Delta(base, ap.eff)]
             ELSE [ap EXCEPT !.step = "restart"]
    /\ UNCHANGED <<cert, seen, last, req, xrayVars, nconf, nginx, pushes, histVars>>

\* Bug: a failed call leaves the rest of the delta behind.
BugCallKeepsTodo(call) ==
    /\ At("live")
    /\ call \in ap.todo
    /\ Due(call, ap.todo, ap.eff)
    /\ Accepts(xray, call)
    /\ \/ xray' = Called(xray, call, ap.eff) /\ ap' = [ap EXCEPT !.todo = @ \ {call}]
       \/ UNCHANGED xray /\ ap' = [ap EXCEPT !.step = "restart"]
    /\ UNCHANGED <<cert, seen, last, req, file, base, disk, nconf, nginx, pushes, histVars>>

\* addUser, removeUser.
Call(call) ==
    /\ At("live")
    /\ call \in ap.todo
    /\ Due(call, ap.todo, ap.eff)
    /\ \/ /\ Accepts(xray, call)
          /\ xray' = Called(xray, call, ap.eff)
          /\ ap' = [ap EXCEPT !.todo = @ \ {call}]
       \/ /\ ~Accepts(xray, call) \/ "rpcError" \in Faults
          /\ xray' \in {xray} \cup (IF Accepts(xray, call) THEN {Called(xray, call, ap.eff)}
                                                         ELSE {})
          /\ ap' = [ap EXCEPT !.step = "restart", !.todo = {}]
    /\ UNCHANGED <<cert, seen, last, req, file, base, disk, nconf, nginx, pushes, histVars>>

LiveDone ==
    /\ At("live")
    /\ ap.todo = {}
    /\ ap' = [ap EXCEPT !.step = "commit"]
    /\ UNCHANGED <<cert, seen, last, req, xrayVars, nconf, nginx, pushes, histVars>>

\* docker restart.
Restart ==
    /\ At("restart")
    /\ xray' = Booted(file)
    /\ ap' = [ap EXCEPT !.step = "commit", !.booted = TRUE]
    /\ UNCHANGED <<cert, seen, last, req, file, base, disk, nconf, nginx, pushes, histVars>>

\* It reports an error, done or not: the baseline stays; nobody retries.
RestartFails ==
    /\ "restartError" \in Faults
    /\ At("restart")
    /\ xray' \in {xray, Booted(file)}
    /\ Release
    /\ causes' = causes \cup {"failed"}
    /\ UNCHANGED <<cert, seen, last, file, base, disk, nconf, nginx, pushes, told, quiet>>

\* Bug: only a restart is recorded on disk.
BugCommitMemoryOnly ==
    /\ At("commit")
    /\ Release
    /\ base' = ap.eff
    /\ disk' = IF ap.booted THEN ap.eff ELSE disk
    /\ UNCHANGED <<cert, seen, last, file, xray, nconf, nginx, pushes, told, quiet, causes>>

\* The new baseline, in memory and (errors ignored) on disk.
Commit ==
    /\ At("commit")
    /\ Release
    /\ base' = ap.eff
    /\ \/ /\ disk' = ap.eff
          /\ causes' = IF ap.booted THEN causes \ Misleading ELSE causes
       \/ /\ "persistError" \in Faults
          /\ disk' = disk
          /\ causes' = causes \cup {"persist"}
    /\ UNCHANGED <<cert, seen, last, file, xray, nconf, nginx, pushes, told, quiet>>

-----------------------------------------------------------------------------
(* Restarts. *)

\* Xray's container dies and Docker starts it again.
XrayBoots ==
    /\ "xrayCrash" \in Faults \/ xray = Nothing
    /\ xray' = Booted(file)
    /\ quiet' = FALSE
    /\ xray' # xray
    /\ UNCHANGED <<cert, seen, last, req, ap, file, base, disk, nconf, nginx, pushes,
                   told, causes>>

\* The agent is updated or dies, and starts again: ConfigFromEnv seeds the
\* baseline, RunManaged applies a TLS-only nginx.conf and stamps the cert.
AgentStop ==
    /\ "agentStop" \in Faults
    /\ seen' = cert
    /\ last' = Nothing
    /\ req' = [a \in Appliers |-> Nothing]
    /\ ap' = Free
    /\ base' = Seeded
    /\ NginxApplied(Nothing, causes \ {"stale"})
    /\ told' = Nothing
    /\ quiet' = (ap.by = "none" /\ base # Nothing /\ base = xray /\ causes = {}
                 /\ \A a \in Appliers : req[a] = Nothing)
    /\ UNCHANGED <<cert, file, disk, xray, pushes>>

-----------------------------------------------------------------------------
Step ==
    \/ \E a \in Appliers : Acquire(a)
    \/ Truncate \/ Fill \/ WriteFails \/ ApplyNginx \/ Diff
    \/ \E call \in Calls : Call(call)
    \/ LiveDone \/ Restart \/ RestartFails \/ Commit

Next ==
    \/ \E p \in Pushed : Push(p)
    \/ NewCert \/ CertTick \/ CertRestart \/ Step \/ XrayBoots \/ AgentStop

Spec == Init /\ [][Next]_vars

(***************************************************************************)
(* Fairness: goroutines run, the watcher ticks, Docker restarts a dead     *)
(* container.  Pushes, certificates and crashes may or may not come.       *)
(***************************************************************************)
Fairness ==
    /\ WF_vars(Step)
    /\ WF_vars(CertTick \/ CertRestart)
    /\ WF_vars(xray = Nothing /\ XrayBoots)

FairSpec == Spec /\ Fairness

-----------------------------------------------------------------------------
\* Type invariant.
TypeOK ==
    /\ cert \in 0..MaxCerts
    /\ seen \in 0..MaxCerts
    /\ last \in Pushed \cup {Nothing}
    /\ req \in [Appliers -> Pushed \cup {Nothing}]
    /\ ap \in Applier
    /\ ap.todo # {} => ap.step = "live"
    /\ file \in Conf \cup {Nothing}
    /\ base \in Conf \cup {Nothing}
    /\ disk \in Conf \cup {Nothing}
    /\ xray \in Conf \cup {Nothing}
    /\ nconf \in Skels \cup {Nothing}
    /\ nginx \in Skels \cup {Nothing}
    /\ pushes \in 0..MaxPushes
    /\ told \in Pushed \cup {Nothing}
    /\ quiet \in BOOLEAN
    /\ causes \subseteq CauseKinds

\* No config is being applied or waits to be.
Resting == \A a \in Appliers : req[a] = Nothing

Up == xray # Nothing

\* "What Xray was last confirmed to be running" (baseline.go:12): between two
\* applies the baseline, in memory or recovered by a restarted agent, is what
\* Xray runs and what config.json says, wherever the agent was stopped; unless an
\* apply failed, the baseline could not be saved or a relapse happened, and no
\* restart of Xray has repaired it since.
BaselineHonest ==
    (base # Nothing /\ ap.by = "none" /\ Up /\ causes \cap Misleading = {})
        => base = xray /\ base = file

\* Once everything received has been applied, Xray runs the config received
\* last (with TLS-Vision exactly if there is a certificate) and nginx routes
\* its serverName, unless a listed failure is unrepaired (xray.go applyConfig).
FollowsPanel ==
    (Resting /\ told # Nothing /\ causes \cap {"failed", "stale"} = {}) =>
        /\ "nginx" \notin causes => nginx = told.skel
        /\ causes \cap Misleading = {} /\ Up /\ seen = cert
               => xray = Effective(told, cert # 0)

\* "Restarting an agent does not restart Xray" (docs/deployment.md:233): after a
\* restart of an idle agent, pushes of the same config never take the restart path.
Seamless == quiet => ap.step # "restart"

\* The node ends up running what it was told last, whatever crashes on the way,
\* unless a listed failure stays unrepaired.
EventuallyRuns ==
    <>[](causes = {}) =>
        <>[](told # Nothing => xray = Effective(told, cert # 0) /\ nginx = told.skel)

=============================================================================
