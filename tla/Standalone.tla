----------------------------- MODULE Standalone -----------------------------
(***************************************************************************)
(* A node without a panel (internal/agent/standalone.go, localstore.go):   *)
(* `user add`, `user rm` and `apply` are processes of their own; each      *)
(* reads, changes and rewrites users.json, then regenerates config.json    *)
(* from it and brings Xray there.  The agent itself runs `apply` once when *)
(* it starts.  No lock spans two processes: applyState.mu and the baseline *)
(* in memory are each process's own.                                       *)
(*                                                                         *)
(* A user is a name and the number of its UUID.  The node's settings come  *)
(* from the environment, so configurations differ in their users only, and *)
(* nginx.conf and the ACME domain stay as they are; the calls of a delta   *)
(* are one step here, and taken one by one in Apply.                       *)
(***************************************************************************)
EXTENDS Integers

CONSTANTS
    Names,      \* user names
    Procs,      \* processes that may run at the same time
    Nothing,    \* absent, empty, or not running
    Broken,     \* not JSON
    MaxCmds,    \* bound: commands
    Faults      \* which FaultKinds the run injects

FaultKinds == {"kill", "writeError", "rpcError", "restartError", "xrayCrash"}

ASSUME StandaloneBounds == MaxCmds \in Nat /\ Faults \subseteq FaultKinds

Users == [name: Names, uuid: 1..MaxCmds]
UserSets == SUBSET Users

ASSUME StandaloneNames ==
    Names # {} /\ Nothing # Broken /\ \A db \in UserSets : db \notin {Nothing, Broken}

VARIABLES
    users,      \* users.json; Nothing and {} are both no users to loadLocalDB
    conf,       \* config.json
    disk,       \* xray-baseline.json
    xray,       \* the users Xray admits
    proc,       \* proc[p]: the command process p runs
    cmds,       \* commands so far; numbers the UUIDs
    (* history, read by no action of the system *)
    evicted,    \* users whose removal succeeded
    ok,         \* the command that ended last succeeded
    causes      \* what has gone wrong so far

fileVars == <<users, conf, disk>>
histVars == <<evicted, ok, causes>>
vars == <<fileVars, xray, proc, cmds, histVars>>

CauseKinds == {"overlap", "relapse"}
Pcs == {"idle", "load", "trunc", "save", "reload", "write", "fill", "live", "restart", "commit"}
Proc == [pc: Pcs, cmd: {"add", "rm", "apply"}, name: Names, uuid: 0..MaxCmds,
         db: UserSets, base: UserSets \cup {Nothing}, eff: UserSets]

IdleProc == [pc |-> "idle", cmd |-> "apply", name |-> CHOOSE n \in Names : TRUE,
             uuid |-> 0, db |-> {}, base |-> Nothing, eff |-> {}]

Init ==
    /\ users = Nothing
    /\ conf = Nothing
    /\ disk = Nothing
    /\ xray = Nothing
    /\ proc = [p \in Procs |-> IdleProc]
    /\ cmds = 0
    /\ evicted = {}
    /\ ok = FALSE
    /\ causes = {}

Goto(p, pc) == proc' = [proc EXCEPT ![p].pc = pc]
Exit(p, success) == proc' = [proc EXCEPT ![p] = IdleProc] /\ ok' = success

\* loadLocalDB.
Content(u) == IF u = Nothing THEN {} ELSE u

-----------------------------------------------------------------------------
\* Bug: whatever the baseline was recorded for, it is taken.
BugSeeded == disk

\* ConfigFromEnv: the baseline, if it was recorded for this config.json.
Seeded == IF disk # Nothing /\ disk = conf THEN disk ELSE Nothing

\* RunCLI, or RunStandalone's applyStandalone.
Start(p, cmd, n) ==
    /\ proc[p].pc = "idle"
    /\ cmds < MaxCmds
    /\ cmds' = cmds + 1
    /\ proc' = [proc EXCEPT ![p] =
                  [IdleProc EXCEPT !.pc = IF cmd = "apply" THEN "reload" ELSE "load",
                                   !.cmd = cmd, !.name = n, !.uuid = cmds',
                                   !.base = Seeded]]
    /\ causes' = IF \E q \in Procs : proc[q].pc # "idle" THEN causes \cup {"overlap"}
                                                        ELSE causes
    /\ UNCHANGED <<fileVars, xray, evicted, ok>>

Named(db, n) == {u \in db : u.name = n}

New(p) == [name |-> proc[p].name, uuid |-> proc[p].uuid]

\* What cliAddUser or cliRemoveUser makes of db.
Edited(p, db) == IF proc[p].cmd = "add" THEN db \cup {New(p)}
                                        ELSE db \ Named(db, proc[p].name)

\* Bug: an existing name is no obstacle.
BugRefused(p, db) == proc[p].cmd = "rm" /\ Named(db, proc[p].name) = {}

\* "already exists", "not found".
Refused(p, db) == (proc[p].cmd = "rm") = (Named(db, proc[p].name) = {})

\* cliAddUser, cliRemoveUser: read and check.
Load(p) ==
    /\ proc[p].pc = "load"
    /\ IF users = Broken \/ Refused(p, Content(users)) THEN Exit(p, FALSE)
       ELSE /\ proc' = [proc EXCEPT ![p].pc = "trunc", ![p].db = Content(users)]
            /\ UNCHANGED ok
    /\ UNCHANGED <<fileVars, xray, cmds, evicted, causes>>

\* saveLocalDB overwrites in place: truncate ...
Truncate(p) ==
    /\ proc[p].pc = "trunc"
    /\ users' = Nothing
    /\ Goto(p, "save")
    /\ UNCHANGED <<conf, disk, xray, cmds, histVars>>

\* ... and write.
Save(p) ==
    /\ proc[p].pc = "save"
    /\ users' = Edited(p, proc[p].db)
    /\ Goto(p, "reload")
    /\ UNCHANGED <<conf, disk, xray, cmds, histVars>>

SaveFails(p) ==
    /\ "writeError" \in Faults
    /\ proc[p].pc = "save"
    /\ users' \in {Nothing, Broken}
    /\ Exit(p, FALSE)
    /\ UNCHANGED <<conf, disk, xray, cmds, evicted, causes>>

-----------------------------------------------------------------------------
(* applyStandalone and applyConfig. *)

\* Read users.json once more, whoever has written it.
Reload(p) ==
    /\ proc[p].pc = "reload"
    /\ IF users = Broken THEN Exit(p, FALSE)
       ELSE /\ proc' = [proc EXCEPT ![p].pc = "write", ![p].eff = Content(users)]
            /\ UNCHANGED ok
    /\ UNCHANGED <<fileVars, xray, cmds, evicted, causes>>

\* writeConfig truncates ...
Write(p) ==
    /\ proc[p].pc = "write"
    /\ conf' = Nothing
    /\ Goto(p, "fill")
    /\ UNCHANGED <<users, disk, xray, cmds, histVars>>

\* ... and writes.  ("relapse": over what Xray is not known to run, the config of
\* an older baseline that is still on disk)
Fill(p) ==
    /\ proc[p].pc = "fill"
    /\ conf' = proc[p].eff
    /\ Goto(p, IF proc[p].base = Nothing THEN "restart" ELSE "live")
    /\ causes' = IF proc[p].base = Nothing /\ disk = proc[p].eff
                 THEN causes \cup {"relapse"} ELSE causes
    /\ UNCHANGED <<users, disk, xray, cmds, evicted, ok>>

FillFails(p) ==
    /\ "writeError" \in Faults
    /\ proc[p].pc = "fill"
    /\ Exit(p, FALSE)
    /\ UNCHANGED <<fileVars, xray, cmds, evicted, causes>>

\* The delta: names to remove, a changed UUID's included, and users to add.
Gone(p)  == {u.name : u \in proc[p].base \ proc[p].eff}
Added(p) == proc[p].eff \ proc[p].base

Without(db, ns) == {u \in db : u.name \notin ns}

\* What Xray admits after removing ns and adding us; it refuses a name it has.
After(ns, us) == Without(xray, ns) \cup us
Addable(ns, us) == \A u \in us : Named(Without(xray, ns), u.name) = {}

\* Xray accepts every call of the delta; no calls are accepted by an Xray that is down.
Accepted(p) ==
    \/ proc[p].base = proc[p].eff
    \/ /\ xray # Nothing
       /\ \A n \in Gone(p) : Named(xray, n) # {}
       /\ Addable(Gone(p), Added(p))

\* What Xray may admit when the calls stop halfway.
Partly(p) ==
    {xray} \cup IF xray = Nothing THEN {}
                ELSE UNION {{After(ns, us) : us \in {us \in SUBSET Added(p) : Addable(ns, us)}}
                              : ns \in SUBSET Gone(p)}

\* liveApply: every call accepted.
Live(p) ==
    /\ proc[p].pc = "live"
    /\ Accepted(p)
    /\ xray' = IF proc[p].base = proc[p].eff THEN xray ELSE After(Gone(p), Added(p))
    /\ Goto(p, "commit")
    /\ UNCHANGED <<fileVars, cmds, histVars>>

\* A call fails, after some that did not: the container is restarted.
LiveFails(p) ==
    /\ proc[p].pc = "live"
    /\ proc[p].base # proc[p].eff
    /\ "rpcError" \in Faults \/ ~Accepted(p)
    /\ xray' \in Partly(p)
    /\ Goto(p, "restart")
    /\ UNCHANGED <<fileVars, cmds, histVars>>

\* docker restart; Xray does not start from an empty file.
Restart(p) ==
    /\ proc[p].pc = "restart"
    /\ xray' = conf
    /\ Goto(p, "commit")
    /\ causes' = causes \ {"relapse"}
    /\ UNCHANGED <<fileVars, cmds, evicted, ok>>

RestartFails(p) ==
    /\ "restartError" \in Faults
    /\ proc[p].pc = "restart"
    /\ xray' \in {xray, conf}
    /\ Exit(p, FALSE)
    /\ UNCHANGED <<fileVars, cmds, evicted, causes>>

\* liveState.set, persist, whose error is ignored; the command has succeeded.
Commit(p) ==
    /\ proc[p].pc = "commit"
    /\ disk' = proc[p].eff \/ ("writeError" \in Faults /\ UNCHANGED disk)
    /\ Exit(p, TRUE)
    /\ evicted' = evicted \cup IF proc[p].cmd = "rm" THEN Named(proc[p].db, proc[p].name) ELSE {}
    /\ UNCHANGED <<users, conf, xray, cmds, causes>>

-----------------------------------------------------------------------------
\* The operator interrupts a command, or the container stops.
Kill(p) ==
    /\ "kill" \in Faults
    /\ proc[p].pc # "idle"
    /\ xray' \in IF proc[p].pc = "live" THEN Partly(p) ELSE {xray}
    /\ Exit(p, FALSE)
    /\ UNCHANGED <<fileVars, cmds, evicted, causes>>

\* Xray's container dies, or was down, and Docker starts it again.
XrayBoots ==
    /\ "xrayCrash" \in Faults
    /\ xray # conf
    /\ xray' = conf
    /\ UNCHANGED <<fileVars, proc, cmds, histVars>>

Step(p) ==
    \/ Load(p) \/ Truncate(p) \/ Save(p) \/ SaveFails(p)
    \/ Reload(p) \/ Write(p) \/ Fill(p) \/ FillFails(p)
    \/ Live(p) \/ LiveFails(p) \/ Restart(p) \/ RestartFails(p) \/ Commit(p)
    \/ Kill(p)

Next ==
    \/ \E p \in Procs : Step(p) \/ \E cmd \in {"add", "rm", "apply"}, n \in Names : Start(p, cmd, n)
    \/ XrayBoots

Spec == Init /\ [][Next]_vars

-----------------------------------------------------------------------------
\* Type invariant; users.json never has a name twice.
TypeOK ==
    /\ users \in UserSets \cup {Nothing, Broken}
    /\ users # Broken => \A u, v \in Content(users) : u.name = v.name => u = v
    /\ conf \in UserSets \cup {Nothing}
    /\ disk \in UserSets \cup {Nothing}
    /\ xray \in UserSets \cup {Nothing}
    /\ proc \in [Procs -> Proc]
    /\ cmds \in 0..MaxCmds
    /\ evicted \in UserSets
    /\ ok \in BOOLEAN
    /\ causes \subseteq CauseKinds

\* A removal that succeeded is final: users.json and config.json never list that UUID
\* again, and Xray never admits it, however later commands fail or are killed between
\* the writes of users.json, config.json, the baseline and the calls to Xray, and
\* whenever Xray starts again (standalone.go cliRemoveUser, applyStandalone); unless
\* commands ran at the same time.
RemovedIsOut ==
    "overlap" \notin causes =>
        \A f \in {users, conf, xray} \ {Broken} : evicted \cap Content(f) = {}

\* A command that succeeds leaves the node serving exactly the users of users.json
\* (or Xray down, with the config.json of these users for Docker to start it from),
\* whatever earlier commands left behind when they failed or were interrupted; unless
\* commands ran at the same time, or a second failure put back the config.json of the
\* last baseline (standalone.go applyStandalone).
ServesListed ==
    (ok /\ causes \cap {"overlap", "relapse"} = {} /\ \A p \in Procs : proc[p].pc = "idle")
        => conf = Content(users) /\ xray \in {conf, Nothing}
=============================================================================
