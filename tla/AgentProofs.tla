----------------------------- MODULE AgentProofs -----------------------------
(***************************************************************************)
(* Proofs about the two components of the agent that keep files of their   *)
(* own.  They share nothing, so one module can extend both.                *)
(*                                                                         *)
(* Standalone, for any number of names, processes and commands: its types, *)
(* that a command that succeeds leaves the node serving its users, and     *)
(* that a removal that succeeded is final.                                 *)
(*                                                                         *)
(* Devices, for any number of log lines and rotations: its types, that no  *)
(* connection is dropped silently, and that none counts twice.  Nothing in *)
(* these proofs depends on what the constants of Devices are.              *)
(***************************************************************************)
EXTENDS Standalone, Devices, SequenceTheorems, TLAPS

-----------------------------------------------------------------------------
(* The standalone node: what the induction needs. *)

\* No name twice.
Unique(db) == \A u, v \in db : u.name = v.name => u = v

\* What a command in progress knows: what Load checked still holds of the users it
\* read, and no list of users it holds has a name twice.
ProcOK ==
    \A p \in Procs :
        /\ proc[p].pc # "idle" => proc[p].uuid # 0
        /\ proc[p].pc \in {"trunc", "save"} =>
              Unique(proc[p].db) /\ ~Refused(p, proc[p].db)
        /\ Unique(proc[p].eff)
        /\ proc[p].base # Nothing => Unique(proc[p].base)

DiskOK == disk # Nothing => Unique(disk)

NoRelapse == "relapse" \notin causes

\* A baseline on disk that would be believed is what Xray runs.
Trusted == NoRelapse /\ disk # Nothing /\ disk = conf => xray \in {conf, Nothing}

\* Where the only command in progress is, and what it has made of the files and of Xray.
Progress(p) ==
    LET base == proc[p].base
        eff  == proc[p].eff
        At(pcs) == proc[p].pc \in pcs
    IN  /\ At({"load", "trunc", "save", "reload", "write"}) => Trusted /\ base = Seeded
        /\ At({"write", "fill", "live", "restart", "commit"}) =>
              users # Broken /\ eff = Content(users)
        /\ At({"fill"}) => /\ conf = Nothing /\ base \in {Nothing, disk}
                           /\ base # Nothing /\ NoRelapse => xray \in {base, Nothing}
        /\ At({"live", "restart", "commit"}) => conf = eff
        /\ At({"live"}) => /\ base = disk /\ base # Nothing
                           /\ NoRelapse => xray \in {base, eff, Nothing}
        /\ At({"restart"}) => (IF base = Nothing THEN disk = eff => ~NoRelapse
                                                 ELSE base = disk /\ base # eff)
        /\ At({"commit"}) => (NoRelapse => xray \in {eff, Nothing})

Settled == Trusted /\ (ok /\ NoRelapse =>
                          users # Broken /\ conf = Content(users) /\ xray \in {conf, Nothing})

\* While no two commands have run at the same time.
ServesInStep ==
    "overlap" \notin causes =>
        /\ \A p, q \in Procs : proc[p].pc # "idle" /\ proc[q].pc # "idle" => p = q
        /\ (\A p \in Procs : proc[p].pc = "idle") => Settled
        /\ \A p \in Procs : proc[p].pc # "idle" => Progress(p)

-----------------------------------------------------------------------------
(* Types. *)

BaseInv == TypeOK /\ ProcOK /\ DiskOK

LEMMA SetsApart ==
    Nothing # Broken /\ Nothing \notin UserSets /\ Broken \notin UserSets /\ {} \in UserSets
BY StandaloneNames DEF UserSets

LEMMA IdleType ==
    /\ IdleProc \in Proc
    /\ IdleProc.pc = "idle" /\ IdleProc.eff = {} /\ IdleProc.base = Nothing
<1>1. (CHOOSE n \in Names : TRUE) \in Names
  BY StandaloneNames
<1>2. 0 \in 0..MaxCmds
  BY StandaloneBounds
<1> QED
  BY <1>1, <1>2 DEF IdleProc, Proc, Pcs, UserSets

\* A command goes on.
LEMMA Moves ==
    ASSUME BaseInv, NEW p \in Procs, NEW pc \in Pcs, Goto(p, pc)
    PROVE  /\ proc' \in [Procs -> Proc]
           /\ \A q \in Procs : q # p => proc'[q] = proc[q]
           /\ proc'[p].pc = pc /\ proc'[p].cmd = proc[p].cmd /\ proc'[p].name = proc[p].name
           /\ proc'[p].uuid = proc[p].uuid /\ proc'[p].db = proc[p].db
           /\ proc'[p].base = proc[p].base /\ proc'[p].eff = proc[p].eff
<1>1. proc \in [Procs -> Proc] /\ proc[p] \in Proc
  BY DEF BaseInv, TypeOK
<1>2. proc' = [proc EXCEPT ![p].pc = pc]
  BY DEF Goto
<1> QED
  BY <1>1, <1>2 DEF Proc

\* A command ends.
LEMMA Ends ==
    ASSUME BaseInv, NEW p \in Procs, NEW success \in BOOLEAN, Exit(p, success)
    PROVE  /\ proc' \in [Procs -> Proc]
           /\ \A q \in Procs : q # p => proc'[q] = proc[q]
           /\ proc'[p] = IdleProc
           /\ ok' \in BOOLEAN
BY IdleType DEF BaseInv, TypeOK, Exit

LEMMA EndsOK ==
    ASSUME BaseInv, NEW p \in Procs, NEW success \in BOOLEAN, Exit(p, success)
    PROVE  ProcOK'
<1>1. /\ \A q \in Procs : q # p => proc'[q] = proc[q]
      /\ proc'[p] = IdleProc
  BY Ends
<1>2. ProcOK
  BY DEF BaseInv
<1> SUFFICES ASSUME NEW q \in Procs
             PROVE  /\ proc'[q].pc # "idle" => proc'[q].uuid # 0
                    /\ proc'[q].pc \in {"trunc", "save"} =>
                          Unique(proc'[q].db) /\ ~Refused(q, proc[q].db)'
                    /\ Unique(proc'[q].eff)
                    /\ proc'[q].base # Nothing => Unique(proc'[q].base)
  BY DEF ProcOK, Unique, Refused, Named
<1>3. CASE q = p
  BY <1>1, <1>3, IdleType DEF Unique
<1>4. CASE q # p
  BY <1>1, <1>2, <1>4 DEF ProcOK, Refused
<1> QED
  BY <1>3, <1>4

LEMMA MovesOK ==
    ASSUME BaseInv, NEW p \in Procs, NEW pc \in Pcs, Goto(p, pc), proc[p].pc # "idle",
           pc \in {"trunc", "save"} => proc[p].pc \in {"trunc", "save"}
    PROVE  ProcOK'
<1>1. /\ \A q \in Procs : q # p => proc'[q] = proc[q]
      /\ proc'[p].pc = pc /\ proc'[p].cmd = proc[p].cmd /\ proc'[p].name = proc[p].name
      /\ proc'[p].uuid = proc[p].uuid /\ proc'[p].db = proc[p].db
      /\ proc'[p].base = proc[p].base /\ proc'[p].eff = proc[p].eff
  BY Moves
<1>2. ProcOK
  BY DEF BaseInv
<1> QED
  BY <1>1, <1>2 DEF ProcOK, Unique, Refused, Named

\* What Xray admits halfway.
LEMMA PartlyType ==
    ASSUME TypeOK, NEW p \in Procs, NEW x \in Partly(p)
    PROVE  x \in UserSets \cup {Nothing}
<1>1. xray \in UserSets \cup {Nothing} /\ Added(p) \subseteq Users
  BY DEF TypeOK, Added, Proc, UserSets
<1>2. CASE x = xray
  BY <1>1, <1>2
<1>3. CASE x # xray
  <2>1. xray # Nothing /\ \E ns \in SUBSET Gone(p) : \E us \in SUBSET Added(p) : x = After(ns, us)
    BY <1>3 DEF Partly
  <2> QED
    BY <1>1, <2>1 DEF After, Without, UserSets
<1> QED
  BY <1>2, <1>3

LEMMA ContentType ==
    ASSUME TypeOK, users # Broken
    PROVE  Content(users) \in UserSets /\ Unique(Content(users))
BY SetsApart DEF TypeOK, Content, Unique

LEMMA SeededType ==
    ASSUME TypeOK, DiskOK
    PROVE  Seeded \in UserSets \cup {Nothing} /\ (Seeded # Nothing => Unique(Seeded))
BY DEF TypeOK, DiskOK, Seeded

LEMMA EditedType ==
    ASSUME TypeOK, NEW p \in Procs, proc[p].uuid # 0, NEW db \in UserSets
    PROVE  /\ Edited(p, db) \in UserSets
           /\ Unique(db) /\ ~Refused(p, db) => Unique(Edited(p, db))
<1>1. proc[p].name \in Names /\ proc[p].uuid \in 1..MaxCmds /\ proc[p].cmd \in {"add", "rm", "apply"}
  BY StandaloneBounds DEF TypeOK, Proc
<1>2. New(p) \in Users /\ New(p).name = proc[p].name
  BY <1>1 DEF New, Users
<1>3. Edited(p, db) \in UserSets
  BY <1>2 DEF Edited, UserSets
<1>4. ASSUME Unique(db), ~Refused(p, db) PROVE Unique(Edited(p, db))
  <2>1. CASE proc[p].cmd = "add"
    <3>1. Named(db, proc[p].name) = {}
      BY <1>4, <2>1 DEF Refused
    <3>2. \A u \in db : u.name # proc[p].name
      BY <3>1 DEF Named
    <3> QED
      BY <1>2, <1>4, <2>1, <3>2 DEF Edited, Unique
  <2>2. CASE proc[p].cmd # "add"
    BY <1>4, <2>2 DEF Edited, Unique
  <2> QED
    BY <2>1, <2>2
<1> QED
  BY <1>3, <1>4

LEMMA StartBase ==
    ASSUME BaseInv, NEW p \in Procs, NEW cmd \in {"add", "rm", "apply"}, NEW n \in Names,
           Start(p, cmd, n)
    PROVE  BaseInv'
<1> DEFINE r == [IdleProc EXCEPT !.pc = IF cmd = "apply" THEN "reload" ELSE "load",
                                 !.cmd = cmd, !.name = n, !.uuid = cmds', !.base = Seeded]
<1>0. TypeOK /\ ProcOK /\ DiskOK
  BY DEF BaseInv
<1>1. cmds' \in 1..MaxCmds
  BY <1>0, StandaloneBounds DEF Start, TypeOK
<1>2. r \in Proc /\ r.pc \in {"reload", "load"} /\ r.uuid = cmds' /\ r.base = Seeded /\ r.eff = {}
  <2>1. Seeded \in UserSets \cup {Nothing} /\ cmds' \in 0..MaxCmds
    BY <1>0, <1>1, SeededType
  <2>2. (IF cmd = "apply" THEN "reload" ELSE "load") \in Pcs
    BY DEF Pcs
  <2> QED
    BY <2>1, <2>2, IdleType DEF Proc, IdleProc
<1>3. proc' = [proc EXCEPT ![p] = r]
  BY DEF Start
<1> HIDE DEF r
<1>4. /\ proc' \in [Procs -> Proc] /\ proc'[p] = r
      /\ \A q \in Procs : q # p => proc'[q] = proc[q]
  BY <1>0, <1>2, <1>3 DEF TypeOK
<1>5. ProcOK'
  <2> SUFFICES ASSUME NEW q \in Procs
               PROVE  /\ proc'[q].pc # "idle" => proc'[q].uuid # 0
                      /\ proc'[q].pc \in {"trunc", "save"} =>
                            Unique(proc'[q].db) /\ ~Refused(q, proc[q].db)'
                      /\ Unique(proc'[q].eff)
                      /\ proc'[q].base # Nothing => Unique(proc'[q].base)
    BY DEF ProcOK, Unique, Refused, Named
  <2>1. CASE q = p
    <3>1. proc'[q].uuid # 0 /\ proc'[q].eff = {} /\ proc'[q].base = Seeded
          /\ proc'[q].pc \notin {"trunc", "save"}
      BY <1>1, <1>2, <1>4, <2>1
    <3> QED
      BY <1>0, <3>1, SeededType DEF Unique
  <2>2. CASE q # p
    BY <1>0, <1>4, <2>2 DEF ProcOK, Refused
  <2> QED
    BY <2>1, <2>2
<1>6. UNCHANGED <<users, conf, disk, xray, evicted, ok>> /\ causes' \subseteq CauseKinds
  BY <1>0 DEF Start, fileVars, TypeOK, CauseKinds
<1> QED
  BY <1>0, <1>1, <1>4, <1>5, <1>6 DEF BaseInv, TypeOK, DiskOK, Content, Unique

\* One step of a command.
LEMMA StepBase ==
    ASSUME BaseInv, NEW p \in Procs, Step(p)
    PROVE  BaseInv'
<1>0. TypeOK /\ ProcOK /\ DiskOK /\ proc[p] \in Proc /\ proc \in [Procs -> Proc]
  BY DEF BaseInv, TypeOK
<1> DEFINE Files == /\ users' \in UserSets \cup {Nothing, Broken}
                    /\ users' # Broken => Unique(Content(users'))
                    /\ conf' \in UserSets \cup {Nothing} /\ disk' \in UserSets \cup {Nothing}
                    /\ disk' # Nothing => Unique(disk')
                    /\ xray' \in UserSets \cup {Nothing} /\ evicted' \in UserSets
           Rest == cmds' \in 0..MaxCmds /\ ok' \in BOOLEAN /\ causes' \subseteq CauseKinds
<1>f. ASSUME Files, Rest, proc' \in [Procs -> Proc], ProcOK' PROVE BaseInv'
  BY <1>f DEF BaseInv, TypeOK, DiskOK, Unique, Content
<1>u. ASSUME UNCHANGED <<users, conf, disk, xray, evicted>> PROVE Files
  BY <1>0, <1>u DEF TypeOK, DiskOK, Unique, Content
<1>e. ASSUME NEW success \in BOOLEAN, Exit(p, success)
      PROVE  proc' \in [Procs -> Proc] /\ ProcOK' /\ ok' \in BOOLEAN
  BY <1>e, Ends, EndsOK
<1>g. ASSUME NEW pc \in Pcs, Goto(p, pc), proc[p].pc # "idle",
             pc \in {"trunc", "save"} => proc[p].pc \in {"trunc", "save"}
      PROVE  proc' \in [Procs -> Proc] /\ ProcOK'
  BY <1>g, Moves, MovesOK
<1>p. {"trunc", "save", "reload", "write", "fill", "live", "restart", "commit"} \subseteq Pcs
  BY DEF Pcs
<1>c. causes \subseteq CauseKinds /\ {"overlap", "relapse"} \subseteq CauseKinds
  BY <1>0 DEF TypeOK, CauseKinds
<1>o. cmds \in 0..MaxCmds /\ ok \in BOOLEAN
  BY <1>0 DEF TypeOK
<1>1. CASE Load(p)
  <2>1. Files
    BY <1>1, <1>u DEF Load, fileVars
  <2>2. CASE Exit(p, FALSE)
    <3>1. proc' \in [Procs -> Proc] /\ ProcOK' /\ ok' \in BOOLEAN
      BY <1>e, <2>2
    <3>2. Rest
      BY <1>1, <1>c, <1>o, <3>1 DEF Load
    <3> QED
      BY <1>f, <2>1, <3>1, <3>2
  <2>3. CASE ~Exit(p, FALSE)
    <3>1. /\ users # Broken /\ ~Refused(p, Content(users)) /\ UNCHANGED ok
          /\ proc' = [proc EXCEPT ![p].pc = "trunc", ![p].db = Content(users)]
          /\ proc[p].pc = "load"
      BY <1>1, <2>3 DEF Load
    <3>2. Content(users) \in UserSets /\ Unique(Content(users))
      BY <1>0, <3>1, ContentType
    <3>3. /\ proc' \in [Procs -> Proc] /\ \A q \in Procs : q # p => proc'[q] = proc[q]
          /\ proc'[p].pc = "trunc" /\ proc'[p].db = Content(users)
          /\ proc'[p].cmd = proc[p].cmd /\ proc'[p].name = proc[p].name
          /\ proc'[p].uuid = proc[p].uuid /\ proc'[p].base = proc[p].base
          /\ proc'[p].eff = proc[p].eff
      BY <1>0, <1>p, <3>1, <3>2 DEF Proc
    <3>4. ProcOK'
      BY <1>0, <3>1, <3>2, <3>3 DEF ProcOK, Unique, Refused, Named
    <3>5. Rest
      BY <1>1, <1>c, <1>o, <3>1 DEF Load
    <3> QED
      BY <1>f, <2>1, <3>3, <3>4, <3>5
  <2> QED
    BY <2>2, <2>3
<1>2. CASE Truncate(p)
  <2>1. proc' \in [Procs -> Proc] /\ ProcOK'
    BY <1>2, <1>g, <1>p DEF Truncate
  <2>2. Files
    BY <1>0, <1>2, SetsApart DEF Truncate, histVars, TypeOK, DiskOK, Content, Unique
  <2>3. Rest
    BY <1>2, <1>c, <1>o DEF Truncate, histVars
  <2> QED
    BY <1>f, <2>1, <2>2, <2>3
<1>3. CASE Save(p)
  <2>1. proc' \in [Procs -> Proc] /\ ProcOK'
    BY <1>3, <1>g, <1>p DEF Save
  <2>2. /\ proc[p].uuid # 0 /\ proc[p].db \in UserSets
        /\ Unique(proc[p].db) /\ ~Refused(p, proc[p].db)
    BY <1>0, <1>3 DEF Save, ProcOK, TypeOK, Proc
  <2>3. Edited(p, proc[p].db) \in UserSets /\ Unique(Edited(p, proc[p].db))
    BY <1>0, <2>2, EditedType
  <2>4. users' \in UserSets /\ Unique(users') /\ users' # Nothing
    BY <1>3, <2>3, SetsApart DEF Save
  <2>5. Files
    BY <1>0, <1>3, <2>4 DEF Save, histVars, TypeOK, DiskOK, Content
  <2>6. Rest
    BY <1>3, <1>c, <1>o DEF Save, histVars
  <2> QED
    BY <1>f, <2>1, <2>5, <2>6
<1>4. CASE SaveFails(p)
  <2>1. proc' \in [Procs -> Proc] /\ ProcOK' /\ ok' \in BOOLEAN
    BY <1>4, <1>e DEF SaveFails
  <2>2. Files
    BY <1>0, <1>4, SetsApart DEF SaveFails, TypeOK, DiskOK, Content, Unique
  <2>3. Rest
    BY <1>4, <1>c, <1>o, <2>1 DEF SaveFails
  <2> QED
    BY <1>f, <2>1, <2>2, <2>3
<1>5. CASE Reload(p)
  <2>1. Files
    BY <1>5, <1>u DEF Reload, fileVars
  <2>2. CASE Exit(p, FALSE)
    <3>1. proc' \in [Procs -> Proc] /\ ProcOK' /\ ok' \in BOOLEAN
      BY <1>e, <2>2
    <3>2. Rest
      BY <1>5, <1>c, <1>o, <3>1 DEF Reload
    <3> QED
      BY <1>f, <2>1, <3>1, <3>2
  <2>3. CASE ~Exit(p, FALSE)
    <3>1. /\ users # Broken /\ UNCHANGED ok
          /\ proc' = [proc EXCEPT ![p].pc = "write", ![p].eff = Content(users)]
          /\ proc[p].pc = "reload"
      BY <1>5, <2>3 DEF Reload
    <3>2. Content(users) \in UserSets /\ Unique(Content(users))
      BY <1>0, <3>1, ContentType
    <3>3. /\ proc' \in [Procs -> Proc] /\ \A q \in Procs : q # p => proc'[q] = proc[q]
          /\ proc'[p].pc = "write" /\ proc'[p].eff = Content(users)
          /\ proc'[p].uuid = proc[p].uuid /\ proc'[p].base = proc[p].base
      BY <1>0, <1>p, <3>1, <3>2 DEF Proc
    <3>4. ProcOK'
      BY <1>0, <3>1, <3>2, <3>3 DEF ProcOK, Unique, Refused, Named
    <3>5. Rest
      BY <1>5, <1>c, <1>o, <3>1 DEF Reload
    <3> QED
      BY <1>f, <2>1, <3>3, <3>4, <3>5
  <2> QED
    BY <2>2, <2>3
<1>6. CASE Write(p) \/ Fill(p)
  <2>1. proc' \in [Procs -> Proc] /\ ProcOK'
    BY <1>6, <1>g, <1>p DEF Write, Fill
  <2>2. Files
    <3>1. conf' \in UserSets \cup {Nothing} /\ UNCHANGED <<users, disk, xray, evicted>>
      BY <1>0, <1>6 DEF Write, Fill, histVars, Proc
    <3> QED
      BY <1>0, <3>1 DEF TypeOK, DiskOK, Content, Unique
  <2>3. Rest
    BY <1>6, <1>c, <1>o DEF Write, Fill, histVars
  <2> QED
    BY <1>f, <2>1, <2>2, <2>3
<1>7. CASE FillFails(p)
  <2>1. proc' \in [Procs -> Proc] /\ ProcOK' /\ ok' \in BOOLEAN
    BY <1>7, <1>e DEF FillFails
  <2>2. Files
    BY <1>7, <1>u DEF FillFails, fileVars
  <2>3. Rest
    BY <1>7, <1>c, <1>o, <2>1 DEF FillFails
  <2> QED
    BY <1>f, <2>1, <2>2, <2>3
<1>8. CASE Live(p) \/ LiveFails(p) \/ Restart(p)
  <2>1. proc' \in [Procs -> Proc] /\ ProcOK'
    BY <1>8, <1>g, <1>p DEF Live, LiveFails, Restart
  <2>2. xray' \in UserSets \cup {Nothing}
    <3>1. CASE Live(p)
      <4>1. CASE xray' = xray
        BY <1>0, <4>1 DEF TypeOK
      <4>2. CASE xray' # xray
        <5>1. xray # Nothing /\ xray' = After(Gone(p), Added(p))
          BY <3>1, <4>2 DEF Live, Accepted
        <5> QED
          BY <1>0, <5>1 DEF TypeOK, After, Without, Added, UserSets, Proc
      <4> QED
        BY <4>1, <4>2
    <3>2. CASE LiveFails(p)
      BY <1>0, <3>2, PartlyType DEF LiveFails
    <3>3. CASE Restart(p)
      BY <1>0, <3>3 DEF Restart, TypeOK
    <3> QED
      BY <1>8, <3>1, <3>2, <3>3
  <2>3. UNCHANGED <<users, conf, disk, evicted>>
    BY <1>8 DEF Live, LiveFails, Restart, fileVars, histVars
  <2>4. Files
    BY <1>0, <2>2, <2>3 DEF TypeOK, DiskOK, Content, Unique
  <2>5. Rest
    BY <1>8, <1>c, <1>o DEF Live, LiveFails, Restart, histVars
  <2> QED
    BY <1>f, <2>1, <2>4, <2>5
<1>9. CASE RestartFails(p) \/ Commit(p) \/ Kill(p)
  <2>1. proc' \in [Procs -> Proc] /\ ProcOK' /\ ok' \in BOOLEAN
    BY <1>9, <1>e DEF RestartFails, Commit, Kill
  <2>2. xray' \in UserSets \cup {Nothing}
    BY <1>0, <1>9, PartlyType DEF RestartFails, Commit, Kill, TypeOK
  <2>3. disk' \in {disk, proc[p].eff} /\ UNCHANGED <<users, conf>>
    BY <1>9 DEF RestartFails, Commit, Kill, fileVars
  <2>6. evicted' \in UserSets
    <3>1. evicted' \subseteq evicted \cup proc[p].db
      BY <1>9 DEF RestartFails, Commit, Kill, Named
    <3> QED
      BY <1>0, <3>1 DEF TypeOK, Proc, UserSets
  <2>4. Files
    BY <1>0, <2>2, <2>3, <2>6 DEF TypeOK, DiskOK, ProcOK, Content, Unique, Proc
  <2>5. Rest
    BY <1>9, <1>c, <1>o, <2>1 DEF RestartFails, Commit, Kill
  <2> QED
    BY <1>f, <2>1, <2>4, <2>5
<1> QED
  BY <1>1, <1>2, <1>3, <1>4, <1>5, <1>6, <1>7, <1>8, <1>9 DEF Step

LEMMA BaseNext ==
    ASSUME BaseInv, [Next]_vars
    PROVE  BaseInv'
<1>1. CASE UNCHANGED vars
  BY <1>1 DEF vars, fileVars, histVars, BaseInv, TypeOK, ProcOK, DiskOK, Unique, Refused, Named,
              Content
<1>2. CASE XrayBoots
  BY <1>2 DEF XrayBoots, fileVars, histVars, BaseInv, TypeOK, ProcOK, DiskOK, Unique, Refused,
              Named, Content
<1> QED
  BY <1>1, <1>2, StartBase, StepBase DEF Next

LEMMA BaseInit == Init => BaseInv
<1> SUFFICES ASSUME Init PROVE BaseInv
  OBVIOUS
<1>1. \A p \in Procs : proc[p] = IdleProc
  BY DEF Init
<1>2. ProcOK
  BY <1>1, IdleType DEF ProcOK, Unique
<1>3. TypeOK
  <2>1. users = Nothing /\ Content(users) = {} /\ evicted = {} /\ ok = FALSE /\ causes = {}
    BY DEF Init, Content
  <2>2. cmds \in 0..MaxCmds /\ proc \in [Procs -> Proc]
    BY IdleType, StandaloneBounds DEF Init
  <2> QED
    BY <2>1, <2>2, SetsApart DEF Init, TypeOK
<1> QED
  BY <1>2, <1>3 DEF BaseInv, DiskOK, Init

LEMMA BaseAlways == Spec => []BaseInv
BY BaseInit, BaseNext, PTL DEF Spec

\* users.json is well formed or plainly broken, and never has a name twice
\* (localstore.go, cliAddUser's "already exists").
THEOREM TypeCorrect == Spec => []TypeOK
<1>1. BaseInv => TypeOK
  BY DEF BaseInv
<1> QED
  BY <1>1, BaseAlways, PTL

-----------------------------------------------------------------------------
(* A command that succeeds leaves the node serving its users. *)

\* The delta takes Xray from the baseline to the new users, and leaves it there when a
\* delta that was cut short had brought it there already.
LEMMA DeltaArrives ==
    ASSUME NEW p \in Procs, Unique(proc[p].base), xray \in {proc[p].base, proc[p].eff}
    PROVE  After(Gone(p), Added(p)) = proc[p].eff
<1> DEFINE base == proc[p].base
           eff  == proc[p].eff
<1>1. CASE xray = base
  <2>1. ASSUME NEW u \in base PROVE u.name \notin Gone(p) <=> u \in eff
    BY DEF Gone, Unique
  <2> QED
    BY <1>1, <2>1 DEF After, Without, Added
<1>2. CASE xray = eff
  <2>1. ASSUME NEW u \in eff, u.name \in Gone(p) PROVE u \in Added(p)
    BY <2>1 DEF Gone, Added, Unique
  <2> QED
    BY <1>2, <2>1 DEF After, Without, Added
<1> QED
  BY <1>1, <1>2

\* A delta of nothing, cut short.
LEMMA NoDelta ==
    ASSUME NEW p \in Procs, proc[p].base = proc[p].eff, NEW x \in Partly(p)
    PROVE  x = xray
<1>1. Gone(p) = {} /\ Added(p) = {}
  BY DEF Gone, Added
<1> QED
  BY <1>1 DEF Partly, After, Without

\* The step of the only command in progress: it goes on, or it ends.
LEMMA OneGoesOn ==
    ASSUME NEW p \in Procs, \A q \in Procs : q # p => proc[q].pc = "idle" /\ proc'[q] = proc[q],
           proc'[p].pc # "idle", Progress(p)'
    PROVE  ServesInStep'
<1>1. \A q \in Procs : proc'[q].pc # "idle" => q = p
  OBVIOUS
<1>2. \A q \in Procs : proc'[q].pc # "idle" => Progress(q)'
  BY <1>1
<1>3. ~\A q \in Procs : proc'[q].pc = "idle"
  OBVIOUS
<1> QED
  BY <1>1, <1>2, <1>3 DEF ServesInStep

LEMMA OneEnds ==
    ASSUME NEW p \in Procs, \A q \in Procs : q # p => proc[q].pc = "idle" /\ proc'[q] = proc[q],
           proc'[p].pc = "idle", Settled'
    PROVE  ServesInStep'
<1>1. \A q \in Procs : proc'[q].pc = "idle"
  OBVIOUS
<1> QED
  BY <1>1 DEF ServesInStep

\* While no two commands have run at the same time, the one that takes a step is alone.
LEMMA Alone ==
    ASSUME BaseInv, ServesInStep, NEW p \in Procs, Step(p), "overlap" \notin causes'
    PROVE  /\ "overlap" \notin causes /\ proc[p].pc # "idle"
           /\ \A q \in Procs : q # p => proc[q].pc = "idle" /\ proc'[q] = proc[q]
<1>1. /\ "overlap" \notin causes /\ proc[p].pc # "idle"
      /\ \A q \in Procs : q # p => proc'[q] = proc[q]
  <2>1. CASE Load(p) \/ Truncate(p) \/ Save(p) \/ SaveFails(p) \/ Reload(p)
    BY <2>1 DEF Load, Truncate, Save, SaveFails, Reload, Goto, Exit, BaseInv, TypeOK, histVars
  <2>2. CASE Write(p) \/ Fill(p) \/ FillFails(p) \/ Live(p) \/ LiveFails(p)
    BY <2>2 DEF Write, Fill, FillFails, Live, LiveFails, Goto, Exit, BaseInv, TypeOK, histVars
  <2>3. CASE Restart(p) \/ RestartFails(p) \/ Commit(p) \/ Kill(p)
    BY <2>3 DEF Restart, RestartFails, Commit, Kill, Goto, Exit, BaseInv, TypeOK
  <2> QED
    BY <2>1, <2>2, <2>3 DEF Step
<1> QED
  BY <1>1 DEF ServesInStep

LEMMA ServesStep ==
    ASSUME BaseInv, ServesInStep, NEW p \in Procs, Step(p), "overlap" \notin causes'
    PROVE  ServesInStep'
<1>p. {"trunc", "save", "reload", "write", "fill", "live", "restart", "commit"} \subseteq Pcs
  BY DEF Pcs
<1>0. "overlap" \notin causes /\ proc[p].pc # "idle"
  BY Alone
<1>1. \A q \in Procs : q # p => proc[q].pc = "idle" /\ proc'[q] = proc[q]
  BY Alone
<1>2. Progress(p)
  BY <1>0 DEF ServesInStep
<1>t. TypeOK /\ ProcOK /\ DiskOK
  BY DEF BaseInv
<1>g. ASSUME NEW pc \in Pcs, Goto(p, pc)
      PROVE  proc'[p].pc = pc /\ proc'[p].base = proc[p].base /\ proc'[p].eff = proc[p].eff
  BY <1>g, Moves
<1>e. ASSUME NEW success \in BOOLEAN, Exit(p, success)
      PROVE  proc'[p].pc = "idle" /\ ok' = success
  BY <1>e, Ends, IdleType DEF Exit
\* The command ends without success.
<1>x. ASSUME Exit(p, FALSE), Trusted' PROVE ServesInStep'
  <2>1. proc'[p].pc = "idle" /\ ok' = FALSE
    BY <1>e, <1>x
  <2> QED
    BY <1>1, <1>x, <2>1, OneEnds DEF Settled
<1>k. ASSUME UNCHANGED <<conf, disk, xray>>, NoRelapse' = NoRelapse
      PROVE  (Trusted => Trusted') /\ Seeded' = Seeded
  BY <1>k DEF Trusted, Seeded
<1>3. CASE Load(p)
  <2>1. UNCHANGED <<conf, disk, xray>> /\ NoRelapse' = NoRelapse /\ proc[p].pc = "load"
    BY <1>3 DEF Load, fileVars, NoRelapse
  <2>2. Trusted' /\ proc[p].base = Seeded'
    BY <1>2, <1>k, <2>1 DEF Progress
  <2>3. CASE Exit(p, FALSE)
    BY <1>x, <2>2, <2>3
  <2>4. CASE ~Exit(p, FALSE)
    <3>1. proc'[p].pc = "trunc" /\ proc'[p].base = proc[p].base
      <4>1. proc' = [proc EXCEPT ![p].pc = "trunc", ![p].db = Content(users)]
        BY <1>3, <2>4 DEF Load
      <4>2. proc \in [Procs -> Proc] /\ proc[p] \in Proc
        BY <1>t DEF TypeOK
      <4> QED
        BY <4>1, <4>2 DEF Proc
    <3>2. Progress(p)'
      BY <2>2, <3>1 DEF Progress
    <3> QED
      BY <1>1, <3>1, <3>2, OneGoesOn
  <2> QED
    BY <2>3, <2>4
<1>4. CASE Truncate(p) \/ Save(p)
  <2>1. /\ UNCHANGED <<conf, disk, xray>> /\ NoRelapse' = NoRelapse
        /\ proc[p].pc \in {"trunc", "save"}
    BY <1>4 DEF Truncate, Save, histVars, NoRelapse
  <2>2. Trusted' /\ proc[p].base = Seeded'
    BY <1>2, <1>k, <2>1 DEF Progress
  <2>3. proc'[p].pc \in {"save", "reload"} /\ proc'[p].base = proc[p].base
    BY <1>4, <1>g, <1>p DEF Truncate, Save
  <2>4. Progress(p)'
    BY <2>2, <2>3 DEF Progress
  <2> QED
    BY <1>1, <2>3, <2>4, OneGoesOn
<1>5. CASE SaveFails(p)
  <2>1. UNCHANGED <<conf, disk, xray>> /\ NoRelapse' = NoRelapse /\ proc[p].pc = "save"
    BY <1>5 DEF SaveFails, NoRelapse
  <2>2. Trusted'
    BY <1>2, <1>k, <2>1 DEF Progress
  <2> QED
    BY <1>5, <1>x, <2>2 DEF SaveFails
<1>6. CASE Reload(p)
  <2>1. UNCHANGED <<users, conf, disk, xray>> /\ NoRelapse' = NoRelapse /\ proc[p].pc = "reload"
    BY <1>6 DEF Reload, fileVars, NoRelapse
  <2>2. Trusted' /\ proc[p].base = Seeded'
    BY <1>2, <1>k, <2>1 DEF Progress
  <2>3. CASE Exit(p, FALSE)
    BY <1>x, <2>2, <2>3
  <2>4. CASE ~Exit(p, FALSE)
    <3>1. /\ proc'[p].pc = "write" /\ proc'[p].base = proc[p].base /\ users # Broken
          /\ proc'[p].eff = Content(users)
      <4>1. /\ proc' = [proc EXCEPT ![p].pc = "write", ![p].eff = Content(users)]
            /\ users # Broken
        BY <1>6, <2>4 DEF Reload
      <4>2. proc \in [Procs -> Proc] /\ proc[p] \in Proc
        BY <1>t DEF TypeOK
      <4> QED
        BY <4>1, <4>2 DEF Proc
    <3>2. Progress(p)'
      BY <2>1, <2>2, <3>1 DEF Progress, Content
    <3> QED
      BY <1>1, <3>1, <3>2, OneGoesOn
  <2> QED
    BY <2>3, <2>4
<1>7. CASE Write(p)
  <2>1. /\ UNCHANGED <<users, disk, xray>> /\ NoRelapse' = NoRelapse /\ proc[p].pc = "write"
        /\ conf' = Nothing
    BY <1>7 DEF Write, histVars, NoRelapse
  <2>2. /\ Trusted /\ proc[p].base = Seeded
        /\ users # Broken /\ proc[p].eff = Content(users)
    BY <1>2, <2>1 DEF Progress
  <2>3. proc'[p].pc = "fill" /\ proc'[p].base = proc[p].base /\ proc'[p].eff = proc[p].eff
    BY <1>7, <1>g, <1>p DEF Write
  <2>4. /\ proc[p].base \in {Nothing, disk}
        /\ proc[p].base # Nothing /\ NoRelapse => xray \in {proc[p].base, Nothing}
    BY <2>2 DEF Trusted, Seeded
  <2>5. Progress(p)'
    BY <2>1, <2>2, <2>3, <2>4 DEF Progress, Content
  <2> QED
    BY <1>1, <2>3, <2>5, OneGoesOn
<1>8. CASE Fill(p)
  <2>1. /\ UNCHANGED <<users, disk, xray>> /\ proc[p].pc = "fill" /\ conf' = proc[p].eff
        /\ causes' = IF proc[p].base = Nothing /\ disk = proc[p].eff
                     THEN causes \cup {"relapse"} ELSE causes
        /\ Goto(p, IF proc[p].base = Nothing THEN "restart" ELSE "live")
    BY <1>8 DEF Fill
  <2>2. /\ users # Broken /\ proc[p].eff = Content(users)
        /\ proc[p].base \in {Nothing, disk}
        /\ proc[p].base # Nothing /\ NoRelapse => xray \in {proc[p].base, Nothing}
    BY <1>2, <2>1 DEF Progress
  <2>3. CASE proc[p].base = Nothing
    <3>1. proc'[p].pc = "restart" /\ proc'[p].base = Nothing /\ proc'[p].eff = proc[p].eff
      BY <1>g, <1>p, <2>1, <2>3
    <3>2. Progress(p)'
      BY <2>1, <2>2, <2>3, <3>1 DEF Progress, Content, NoRelapse
    <3> QED
      BY <1>1, <3>1, <3>2, OneGoesOn
  <2>4. CASE proc[p].base # Nothing
    <3>1. proc'[p].pc = "live" /\ proc'[p].base = proc[p].base /\ proc'[p].eff = proc[p].eff
      BY <1>g, <1>p, <2>1, <2>4
    <3>2. Progress(p)'
      BY <2>1, <2>2, <2>4, <3>1 DEF Progress, Content, NoRelapse
    <3> QED
      BY <1>1, <3>1, <3>2, OneGoesOn
  <2> QED
    BY <2>3, <2>4
<1>9. CASE FillFails(p)
  <2>1. conf' = Nothing
    BY <1>2, <1>9 DEF FillFails, fileVars, Progress
  <2> QED
    BY <1>9, <1>x, <2>1 DEF FillFails, Trusted
<1>10. CASE Live(p)
  <2>1. /\ UNCHANGED <<users, conf, disk, causes>> /\ proc[p].pc = "live" /\ Accepted(p)
        /\ xray' = IF proc[p].base = proc[p].eff THEN xray ELSE After(Gone(p), Added(p))
        /\ Goto(p, "commit")
    BY <1>10 DEF Live, fileVars, histVars
  <2>2. /\ users # Broken /\ proc[p].eff = Content(users) /\ conf = proc[p].eff
        /\ proc[p].base # Nothing
        /\ NoRelapse => xray \in {proc[p].base, proc[p].eff, Nothing}
    BY <1>2, <2>1 DEF Progress
  <2>3. proc'[p].pc = "commit" /\ proc'[p].eff = proc[p].eff
    BY <1>g, <1>p, <2>1
  <2>4. NoRelapse => xray' \in {proc[p].eff, Nothing}
    <3>1. CASE proc[p].base = proc[p].eff
      BY <2>1, <2>2, <3>1
    <3>2. CASE proc[p].base # proc[p].eff
      <4>1. xray # Nothing /\ Unique(proc[p].base)
        BY <1>t, <2>1, <2>2, <3>2 DEF Accepted, ProcOK
      <4> QED
        BY <2>1, <2>2, <3>2, <4>1, DeltaArrives
    <3> QED
      BY <3>1, <3>2
  <2>5. Progress(p)'
    BY <2>1, <2>2, <2>3, <2>4 DEF Progress, Content, NoRelapse
  <2> QED
    BY <1>1, <2>3, <2>5, OneGoesOn
<1>11. CASE LiveFails(p)
  <2>1. /\ UNCHANGED <<users, conf, disk, causes>> /\ proc[p].pc = "live"
        /\ proc[p].base # proc[p].eff /\ Goto(p, "restart")
    BY <1>11 DEF LiveFails, fileVars, histVars
  <2>2. /\ users # Broken /\ proc[p].eff = Content(users) /\ conf = proc[p].eff
        /\ proc[p].base = disk /\ proc[p].base # Nothing
    BY <1>2, <2>1 DEF Progress
  <2>3. proc'[p].pc = "restart" /\ proc'[p].eff = proc[p].eff /\ proc'[p].base = proc[p].base
    BY <1>g, <1>p, <2>1
  <2>4. Progress(p)'
    BY <2>1, <2>2, <2>3 DEF Progress, Content
  <2> QED
    BY <1>1, <2>3, <2>4, OneGoesOn
<1>12. CASE Restart(p)
  <2>1. /\ UNCHANGED <<users, conf, disk>> /\ proc[p].pc = "restart" /\ xray' = conf
        /\ Goto(p, "commit")
    BY <1>12 DEF Restart, fileVars
  <2>2. users # Broken /\ proc[p].eff = Content(users) /\ conf = proc[p].eff
    BY <1>2, <2>1 DEF Progress
  <2>3. proc'[p].pc = "commit" /\ proc'[p].eff = proc[p].eff
    BY <1>g, <1>p, <2>1
  <2>4. Progress(p)'
    BY <2>1, <2>2, <2>3 DEF Progress, Content
  <2> QED
    BY <1>1, <2>3, <2>4, OneGoesOn
<1>13. CASE RestartFails(p)
  <2>1. UNCHANGED <<conf, disk, causes>> /\ proc[p].pc = "restart" /\ Exit(p, FALSE)
    BY <1>13 DEF RestartFails, fileVars
  <2>2. Trusted'
    BY <1>2, <2>1 DEF Progress, Trusted, NoRelapse
  <2> QED
    BY <1>x, <2>1, <2>2
<1>14. CASE Commit(p)
  <2>1. UNCHANGED <<users, conf, xray, causes>> /\ proc[p].pc = "commit" /\ Exit(p, TRUE)
    BY <1>14 DEF Commit
  <2>2. /\ users # Broken /\ proc[p].eff = Content(users) /\ conf = proc[p].eff
        /\ NoRelapse => xray \in {proc[p].eff, Nothing}
    BY <1>2, <2>1 DEF Progress
  <2>3. proc'[p].pc = "idle"
    BY <1>e, <2>1
  <2>4. Settled'
    BY <2>1, <2>2 DEF Settled, Trusted, NoRelapse, Content
  <2> QED
    BY <1>1, <2>3, <2>4, OneEnds
<1>15. CASE Kill(p)
  <2>1. /\ UNCHANGED <<conf, disk>> /\ NoRelapse' = NoRelapse /\ Exit(p, FALSE)
        /\ xray' \in IF proc[p].pc = "live" THEN Partly(p) ELSE {xray}
    BY <1>15 DEF Kill, fileVars, NoRelapse
  <2>2. proc[p].pc \in Pcs \ {"idle"}
    BY <1>0, <1>t DEF TypeOK, Proc
  <2>3. Trusted'
    <3>1. CASE proc[p].pc \in {"load", "trunc", "save", "reload", "write"}
      BY <1>2, <1>k, <2>1, <3>1 DEF Progress
    <3>2. CASE proc[p].pc = "fill"
      BY <1>2, <2>1, <3>2 DEF Progress, Trusted
    <3>3. CASE proc[p].pc = "live"
      <4>1. /\ conf = proc[p].eff /\ proc[p].base = disk
            /\ NoRelapse => xray \in {proc[p].base, proc[p].eff, Nothing}
        BY <1>2, <3>3 DEF Progress
      <4>2. disk = conf => xray' = xray
        BY <2>1, <3>3, <4>1, NoDelta
      <4> QED
        BY <2>1, <4>1, <4>2 DEF Trusted
    <3>4. CASE proc[p].pc = "restart"
      BY <1>2, <2>1, <3>4 DEF Progress, Trusted
    <3>5. CASE proc[p].pc = "commit"
      BY <1>2, <2>1, <3>5 DEF Progress, Trusted
    <3> QED
      BY <2>2, <3>1, <3>2, <3>3, <3>4, <3>5 DEF Pcs
  <2> QED
    BY <1>x, <2>1, <2>3
<1> QED
  BY <1>3, <1>4, <1>5, <1>6, <1>7, <1>8, <1>9, <1>10, <1>11, <1>12, <1>13, <1>14, <1>15 DEF Step

LEMMA ServesNext ==
    ASSUME BaseInv, ServesInStep, [Next]_vars
    PROVE  ServesInStep'
<1> SUFFICES ASSUME "overlap" \notin causes' PROVE ServesInStep'
  BY DEF ServesInStep
<1>1. CASE UNCHANGED vars
  <2>1. UNCHANGED <<users, conf, disk, xray, proc, ok, causes>>
    BY <1>1 DEF vars, fileVars, histVars
  <2>2. (Settled <=> Settled') /\ \A p \in Procs : Progress(p) <=> Progress(p)'
    BY <2>1 DEF Settled, Progress, Trusted, NoRelapse, Seeded, Content
  <2> QED
    BY <2>1, <2>2 DEF ServesInStep
<1>2. CASE XrayBoots
  <2>1. UNCHANGED <<users, conf, disk, proc, ok, causes>> /\ xray' = conf
    BY <1>2 DEF XrayBoots, fileVars, histVars
  <2>2. Settled => Settled'
    BY <2>1 DEF Settled, Trusted, NoRelapse, Content
  <2>3. ASSUME NEW p \in Procs, Progress(p) PROVE Progress(p)'
    BY <2>1, <2>3 DEF Progress, Trusted, NoRelapse, Seeded, Content
  <2> QED
    BY <2>1, <2>2, <2>3 DEF ServesInStep
<1>3. ASSUME NEW p \in Procs, NEW cmd \in {"add", "rm", "apply"}, NEW n \in Names, Start(p, cmd, n)
      PROVE  ServesInStep'
  <2>1. /\ UNCHANGED <<users, conf, disk, xray, ok, causes>>
        /\ \A q \in Procs : proc[q].pc = "idle"
    BY <1>3 DEF Start, fileVars
  <2>2. /\ \A q \in Procs : q # p => proc'[q] = proc[q]
        /\ proc'[p].pc \in {"load", "reload"} /\ proc'[p].base = Seeded
    BY <1>3 DEF Start, BaseInv, TypeOK, IdleProc
  <2>3. Trusted' /\ Seeded' = Seeded
    BY <2>1 DEF ServesInStep, Settled, Trusted, NoRelapse, Seeded
  <2>4. Progress(p)'
    BY <2>2, <2>3 DEF Progress
  <2> QED
    BY <2>1, <2>2, <2>4, OneGoesOn
<1> QED
  BY <1>1, <1>2, <1>3, ServesStep DEF Next

LEMMA ServesInit == Init => ServesInStep
BY IdleType DEF Init, ServesInStep, Settled, Trusted

\* A command that succeeds leaves the node serving exactly the users of users.json,
\* whatever earlier commands left behind (standalone.go applyStandalone), for any number
\* of users and commands; with the exceptions that ServesListed names.
THEOREM NodeServes == Spec => []ServesListed
<1>1. ServesInStep => ServesListed
  BY DEF ServesInStep, Settled, ServesListed, NoRelapse
<1> QED
  BY <1>1, ServesInit, ServesNext, BaseAlways, PTL DEF Spec

-----------------------------------------------------------------------------
(* A removal that succeeded is final. *)

\* Nobody who was removed is listed or admitted.
OutOK ==
    /\ users # Broken => evicted \cap Content(users) = {}
    /\ evicted \cap Content(conf) = {}
    /\ evicted \cap Content(xray) = {}

\* The UUIDs in use are numbered up to n.
Below(n) ==
    /\ users # Broken => \A u \in Content(users) : u.uuid <= n
    /\ \A u \in evicted \cup Content(conf) \cup Content(xray) : u.uuid <= n

\* config.json, when there is one, lists whom Xray admits of db: what is not in a baseline
\* recorded for it need not be removed from Xray.
Kept(db) == conf # Nothing => db \cap Content(xray) \subseteq conf

RemovedOK == OutOK /\ Below(cmds) /\ (users # Broken => Kept(Content(users)))

\* Whom the command in progress removes, and how far it is.
Removed(p) == IF proc[p].cmd = "rm" THEN Named(proc[p].db, proc[p].name) ELSE {}

Removing(p) ==
    LET At(pcs) == proc[p].pc \in pcs
    IN  /\ proc[p].uuid = cmds /\ \A u \in proc[p].db : u.uuid <= cmds
        /\ At({"load", "trunc", "save"}) => Below(cmds - 1)
        /\ At({"trunc", "save"}) => /\ evicted \cap proc[p].db = {} /\ Kept(proc[p].db)
                                    /\ \A u \in proc[p].db : u.uuid <= cmds - 1
        /\ At({"reload", "write", "fill", "live", "restart", "commit"}) /\ users # Broken =>
              Removed(p) \cap Content(users) = {}
        /\ At({"reload", "write"}) => Kept(Removed(p))
        /\ At({"fill", "live"}) /\ proc[p].base # Nothing =>
              Removed(p) \cap Content(xray) \subseteq proc[p].base
        /\ At({"commit"}) => Removed(p) \cap Content(xray) = {}

\* While no two commands have run at the same time.
RemovedInStep ==
    "overlap" \notin causes =>
        RemovedOK /\ \A p \in Procs : proc[p].pc # "idle" => Removing(p)

\* The only command in progress takes a step.
LEMMA RemovedAt ==
    ASSUME NEW p \in Procs, \A q \in Procs : q # p => proc[q].pc = "idle" /\ proc'[q] = proc[q],
           RemovedOK', proc'[p].pc # "idle" => Removing(p)'
    PROVE  RemovedInStep'
BY DEF RemovedInStep

\* A step that leaves these files and Xray alone.
LEMMA RemovedFrame ==
    ASSUME UNCHANGED <<users, conf, xray, evicted, cmds>>
    PROVE  /\ RemovedOK => RemovedOK'
           /\ Below(cmds - 1) => Below(cmds - 1)'
           /\ \A db : Kept(db) => Kept(db)'
BY DEF RemovedOK, OutOK, Below, Kept, Content

\* Xray admits no more than it did and config.json lists, which are the users.
LEMMA RemovedXray ==
    ASSUME RemovedOK, UNCHANGED <<users, conf, evicted, cmds>>, conf = Content(users),
           users # Broken, Content(xray') \subseteq Content(xray) \cup Content(conf)
    PROVE  RemovedOK'
<1>1. OutOK'
  BY DEF RemovedOK, OutOK, Content
<1>2. Below(cmds)'
  BY DEF RemovedOK, Below, Content
<1>3. Kept(Content(users))'
  BY DEF Kept, Content
<1> QED
  BY <1>1, <1>2, <1>3 DEF RemovedOK

\* What the calls to Xray, all or some of them, leave it admitting.
LEMMA PartlyContent ==
    ASSUME TypeOK, NEW p \in Procs, xray' \in Partly(p), conf = proc[p].eff, conf # Nothing
    PROVE  Content(xray') \subseteq Content(xray) \cup Content(conf)
<1>1. CASE xray' = xray
  BY <1>1 DEF Content
<1>2. CASE xray' # xray
  <2>1. /\ xray # Nothing
        /\ \E ns \in SUBSET Gone(p) : \E us \in SUBSET Added(p) : xray' = After(ns, us)
    BY <1>2 DEF Partly
  <2>2. xray' \subseteq xray \cup conf
    BY <2>1 DEF After, Without, Added
  <2> QED
    BY <2>1, <2>2 DEF Content
<1> QED
  BY <1>1, <1>2

LEMMA RemovedStep ==
    ASSUME BaseInv, ServesInStep, RemovedInStep, NEW p \in Procs, Step(p),
           "overlap" \notin causes'
    PROVE  RemovedInStep'
<1>p. {"trunc", "save", "reload", "write", "fill", "live", "restart", "commit"} \subseteq Pcs
  BY DEF Pcs
<1>0. "overlap" \notin causes /\ proc[p].pc # "idle"
  BY Alone
<1>1. \A q \in Procs : q # p => proc[q].pc = "idle" /\ proc'[q] = proc[q]
  BY Alone
<1>2. Progress(p) /\ Removing(p) /\ RemovedOK
  BY <1>0 DEF ServesInStep, RemovedInStep
<1>t. /\ TypeOK /\ ProcOK /\ proc[p] \in Proc /\ proc \in [Procs -> Proc]
      /\ cmds \in Nat
  BY StandaloneBounds DEF BaseInv, TypeOK
<1>g. ASSUME NEW pc \in Pcs, Goto(p, pc)
      PROVE  /\ proc'[p].pc = pc /\ proc'[p].uuid = proc[p].uuid /\ proc'[p].db = proc[p].db
             /\ proc'[p].base = proc[p].base /\ proc'[p].eff = proc[p].eff
             /\ proc'[p].cmd = proc[p].cmd /\ proc'[p].name = proc[p].name
             /\ Removed(p)' = Removed(p)
  BY <1>g, Moves DEF Removed, Named
\* The command ends.
<1>x. ASSUME NEW success \in BOOLEAN, Exit(p, success), RemovedOK' PROVE RemovedInStep'
  <2>1. proc'[p].pc = "idle"
    BY <1>x, Ends, IdleType
  <2> QED
    BY <1>1, <1>x, <2>1, RemovedAt
\* It goes on.
<1>y. ASSUME RemovedOK', Removing(p)' PROVE RemovedInStep'
  BY <1>1, <1>y, RemovedAt
<1>3. CASE Load(p)
  <2>1. UNCHANGED <<users, conf, xray, evicted, cmds>> /\ proc[p].pc = "load"
    BY <1>3 DEF Load, fileVars
  <2>2. RemovedOK'
    BY <1>2, <2>1, RemovedFrame
  <2>3. CASE Exit(p, FALSE)
    BY <1>x, <2>2, <2>3
  <2>4. CASE ~Exit(p, FALSE)
    <3>1. /\ proc' = [proc EXCEPT ![p].pc = "trunc", ![p].db = Content(users)]
          /\ users # Broken
      BY <1>3, <2>4 DEF Load
    <3>2. /\ proc'[p].pc = "trunc" /\ proc'[p].db = Content(users)
          /\ proc'[p].uuid = proc[p].uuid
      BY <1>t, <3>1 DEF Proc
    <3>3. Below(cmds - 1) /\ Below(cmds - 1)' /\ proc[p].uuid = cmds
      BY <1>2, <2>1, RemovedFrame DEF Removing
    <3>4. Kept(Content(users))'
      BY <1>2, <2>1, <3>1, RemovedFrame DEF RemovedOK
    <3>5. evicted' \cap proc'[p].db = {}
      BY <1>2, <2>1, <3>1, <3>2 DEF RemovedOK, OutOK
    <3>6. \A u \in proc'[p].db : u.uuid <= cmds' - 1
      BY <2>1, <3>1, <3>2, <3>3 DEF Below
    <3>7. \A u \in proc'[p].db : u.uuid <= cmds'
      BY <1>2, <2>1, <3>1, <3>2 DEF RemovedOK, Below
    <3>8. Kept(proc[p].db)'
      BY <2>1, <3>2, <3>4 DEF Kept, Content
    <3>9. Removing(p)'
      BY <2>1, <3>2, <3>3, <3>5, <3>6, <3>7, <3>8 DEF Removing
    <3> QED
      BY <1>y, <2>2, <3>9
  <2> QED
    BY <2>3, <2>4
<1>4. CASE Truncate(p)
  <2>1. /\ UNCHANGED <<conf, xray, evicted, cmds>> /\ proc[p].pc = "trunc" /\ users' = Nothing
    BY <1>4 DEF Truncate, histVars
  <2>2. Content(users') = {}
    BY <2>1 DEF Content
  <2>3. Below(cmds - 1)' /\ RemovedOK' /\ Kept(proc[p].db)'
    <3>1. Below(cmds - 1) /\ Kept(proc[p].db)
      BY <1>2, <2>1 DEF Removing
    <3>2. proc'[p].db = proc[p].db
      BY <1>4, <1>g, <1>p DEF Truncate
    <3> QED
      BY <1>2, <2>1, <2>2, <3>1, <3>2 DEF Below, RemovedOK, OutOK, Kept, Content
  <2>4. proc'[p].pc = "save" /\ proc'[p].db = proc[p].db /\ proc'[p].uuid = proc[p].uuid
    BY <1>4, <1>g, <1>p DEF Truncate
  <2>5. Removing(p)'
    BY <1>2, <2>1, <2>3, <2>4 DEF Removing
  <2> QED
    BY <1>y, <2>3, <2>5
<1>5. CASE Save(p)
  <2>1. /\ UNCHANGED <<conf, xray, evicted, cmds>> /\ proc[p].pc = "save"
        /\ users' = Edited(p, proc[p].db)
    BY <1>5 DEF Save, histVars
  <2>2. /\ proc'[p].pc = "reload" /\ proc'[p].db = proc[p].db /\ proc'[p].uuid = proc[p].uuid
        /\ Removed(p)' = Removed(p)
    BY <1>5, <1>g, <1>p DEF Save
  <2>3. /\ proc[p].uuid = cmds /\ Below(cmds - 1) /\ evicted \cap proc[p].db = {}
        /\ Kept(proc[p].db) /\ \A u \in proc[p].db : u.uuid <= cmds /\ u.uuid <= cmds - 1
    BY <1>2, <2>1 DEF Removing
  <2>4. Content(users') = users' /\ users' # Broken
    <3>1. Edited(p, proc[p].db) \in UserSets
      BY <1>0, <1>t, EditedType DEF ProcOK, Proc
    <3> QED
      BY <2>1, <3>1, SetsApart DEF Content
  <2>5. ASSUME NEW u \in users' PROVE u \in proc[p].db \/ (u = New(p) /\ u.uuid = cmds)
    BY <2>1, <2>3, <2>5 DEF Edited, New
  <2>6. ~(cmds <= cmds - 1)
    BY <1>t
  <2>7. New(p).uuid = cmds => New(p) \notin evicted \cup Content(conf) \cup Content(xray)
    BY <2>3, <2>6 DEF Below
  <2>8. OutOK'
    BY <1>2, <2>1, <2>3, <2>4, <2>5, <2>7 DEF RemovedOK, OutOK, Content
  <2>9. Below(cmds)'
    BY <1>2, <1>t, <2>1, <2>3, <2>4, <2>5 DEF RemovedOK, Below, Content
  <2>10. Kept(Content(users))'
    BY <2>1, <2>3, <2>4, <2>5, <2>7 DEF Kept, Content
  <2>11. Removed(p) \subseteq proc[p].db /\ Removed(p) \cap users' = {}
    BY <2>1 DEF Removed, Named, Edited
  <2>12. Kept(Removed(p))'
    BY <2>1, <2>2, <2>3, <2>11 DEF Kept, Content
  <2>13. Removing(p)'
    BY <2>1, <2>2, <2>3, <2>4, <2>11, <2>12 DEF Removing
  <2> QED
    BY <1>y, <2>8, <2>9, <2>10, <2>13 DEF RemovedOK
<1>6. CASE SaveFails(p)
  <2>1. UNCHANGED <<conf, xray, evicted, cmds>> /\ users' \in {Nothing, Broken}
    BY <1>6 DEF SaveFails
  <2>2. RemovedOK'
    BY <1>2, <2>1 DEF RemovedOK, OutOK, Below, Kept, Content
  <2> QED
    BY <1>6, <1>x, <2>2 DEF SaveFails
<1>7. CASE Reload(p)
  <2>1. UNCHANGED <<users, conf, xray, evicted, cmds>> /\ proc[p].pc = "reload"
    BY <1>7 DEF Reload, fileVars
  <2>2. RemovedOK' /\ \A db : Kept(db) => Kept(db)'
    BY <1>2, <2>1, RemovedFrame
  <2>3. CASE Exit(p, FALSE)
    BY <1>x, <2>2, <2>3
  <2>4. CASE ~Exit(p, FALSE)
    <3>1. proc' = [proc EXCEPT ![p].pc = "write", ![p].eff = Content(users)]
      BY <1>7, <2>4 DEF Reload
    <3>2. /\ proc'[p].pc = "write" /\ proc'[p].db = proc[p].db /\ proc'[p].uuid = proc[p].uuid
          /\ proc'[p].cmd = proc[p].cmd /\ proc'[p].name = proc[p].name
      BY <1>t, <3>1 DEF Proc
    <3>3. Removed(p)' = Removed(p)
      BY <3>2 DEF Removed, Named
    <3>4. Kept(Removed(p))'
      BY <1>2, <2>1, <2>2, <3>3 DEF Removing, Kept
    <3>5. Removing(p)'
      BY <1>2, <2>1, <3>2, <3>3, <3>4 DEF Removing, Content
    <3> QED
      BY <1>y, <2>2, <3>5
  <2> QED
    BY <2>3, <2>4
<1>8. CASE Write(p)
  <2>1. UNCHANGED <<users, xray, evicted, cmds>> /\ proc[p].pc = "write" /\ conf' = Nothing
    BY <1>8 DEF Write, histVars
  <2>2. /\ proc'[p].pc = "fill" /\ proc'[p].db = proc[p].db /\ proc'[p].uuid = proc[p].uuid
        /\ proc'[p].base = proc[p].base /\ Removed(p)' = Removed(p)
    BY <1>8, <1>g, <1>p DEF Write
  <2>3. RemovedOK'
    BY <1>2, <2>1 DEF RemovedOK, OutOK, Below, Kept, Content
  <2>4. proc[p].base # Nothing => Removed(p) \cap Content(xray) \subseteq proc[p].base
    BY <1>2, <2>1 DEF Removing, Kept, Progress, Seeded
  <2>5. Removing(p)'
    BY <1>2, <2>1, <2>2, <2>4 DEF Removing, Content
  <2> QED
    BY <1>y, <2>3, <2>5
<1>9. CASE Fill(p)
  <2>1. /\ UNCHANGED <<users, xray, evicted, cmds>> /\ proc[p].pc = "fill"
        /\ conf' = proc[p].eff
        /\ Goto(p, IF proc[p].base = Nothing THEN "restart" ELSE "live")
    BY <1>9 DEF Fill
  <2>2. users # Broken /\ proc[p].eff = Content(users)
    BY <1>2, <2>1 DEF Progress
  <2>3. /\ proc'[p].pc \in {"restart", "live"} /\ proc'[p].db = proc[p].db
        /\ proc'[p].uuid = proc[p].uuid
        /\ proc'[p].base = proc[p].base /\ Removed(p)' = Removed(p)
    BY <1>g, <1>p, <2>1
  <2>4. RemovedOK'
    BY <1>2, <2>1, <2>2 DEF RemovedOK, OutOK, Below, Kept, Content
  <2>5. Removing(p)'
    BY <1>2, <2>1, <2>3 DEF Removing, Content
  <2> QED
    BY <1>y, <2>4, <2>5
<1>10. CASE FillFails(p)
  <2>1. UNCHANGED <<users, conf, xray, evicted, cmds>> /\ Exit(p, FALSE)
    BY <1>10 DEF FillFails, fileVars
  <2> QED
    BY <1>2, <1>x, <2>1, RemovedFrame
\* From here on config.json lists the users.
<1>c. ASSUME proc[p].pc \in {"live", "restart", "commit"}
      PROVE  /\ users # Broken /\ conf = Content(users) /\ conf = proc[p].eff
             /\ conf # Nothing /\ Content(conf) = conf /\ Removed(p) \cap conf = {}
  <2>1. users # Broken /\ conf = Content(users) /\ conf = proc[p].eff
    BY <1>2, <1>c DEF Progress
  <2>2. conf # Nothing /\ Content(conf) = conf
    BY <1>t, <2>1, SetsApart, ContentType DEF Content
  <2>3. Removed(p) \cap conf = {}
    BY <1>2, <1>c, <2>1 DEF Removing
  <2> QED
    BY <2>1, <2>2, <2>3
<1>11. CASE Live(p)
  <2>1. /\ UNCHANGED <<users, conf, evicted, cmds>> /\ proc[p].pc = "live" /\ Accepted(p)
        /\ xray' = IF proc[p].base = proc[p].eff THEN xray ELSE After(Gone(p), Added(p))
    BY <1>11 DEF Live, fileVars, histVars
  <2>2. /\ proc'[p].pc = "commit" /\ proc'[p].db = proc[p].db /\ proc'[p].uuid = proc[p].uuid
        /\ Removed(p)' = Removed(p)
    BY <1>11, <1>g, <1>p DEF Live
  <2>3. /\ Removed(p) \cap Content(xray) \subseteq proc[p].base
        /\ proc[p].base # Nothing
    BY <1>2, <2>1 DEF Progress, Removing
  <2>4. CASE proc[p].base = proc[p].eff
    <3>1. RemovedOK'
      BY <1>2, <2>1, <2>4, RemovedFrame
    <3>2. Removed(p) \cap Content(xray') = {}
      BY <1>c, <2>1, <2>3, <2>4
    <3>3. Removing(p)'
      BY <1>2, <2>1, <2>2, <3>2 DEF Removing, Content
    <3> QED
      BY <1>y, <3>1, <3>3
  <2>5. CASE proc[p].base # proc[p].eff
    <3>1. xray # Nothing /\ xray' = After(Gone(p), Added(p)) /\ Content(xray) = xray
      BY <2>1, <2>5 DEF Accepted, Content
    <3>2. xray' \in UserSets /\ Content(xray') = xray'
      <4>1. xray' \in UserSets
        BY <1>t, <3>1 DEF TypeOK, After, Without, Added, UserSets, Proc
      <4> QED
        BY <4>1, SetsApart DEF Content
    <3>3. Content(xray') \subseteq Content(xray) \cup Content(conf)
      BY <1>c, <2>1, <3>1, <3>2 DEF After, Without, Added
    <3>4. RemovedOK'
      BY <1>2, <1>c, <2>1, <3>3, RemovedXray
    <3>5. ASSUME NEW u \in Removed(p), u \in xray' PROVE FALSE
      <4>1. u \notin proc[p].eff
        BY <1>c, <2>1, <3>5
      <4>2. u \in xray /\ u.name \notin Gone(p)
        BY <3>1, <3>5, <4>1 DEF After, Without, Added
      <4>3. u \in proc[p].base \ proc[p].eff
        BY <2>3, <3>1, <4>1, <4>2
      <4> QED
        BY <4>2, <4>3 DEF Gone
    <3>6. Removing(p)'
      BY <1>2, <2>1, <2>2, <3>2, <3>5 DEF Removing, Content
    <3> QED
      BY <1>y, <3>4, <3>6
  <2> QED
    BY <2>4, <2>5
<1>12. CASE LiveFails(p)
  <2>1. /\ UNCHANGED <<users, conf, evicted, cmds>> /\ proc[p].pc = "live"
        /\ xray' \in Partly(p)
    BY <1>12 DEF LiveFails, fileVars, histVars
  <2>2. /\ proc'[p].pc = "restart" /\ proc'[p].db = proc[p].db /\ proc'[p].uuid = proc[p].uuid
        /\ Removed(p)' = Removed(p)
    BY <1>12, <1>g, <1>p DEF LiveFails
  <2>3. RemovedOK'
    BY <1>2, <1>c, <1>t, <2>1, PartlyContent, RemovedXray
  <2>4. Removing(p)'
    BY <1>2, <2>1, <2>2 DEF Removing, Content
  <2> QED
    BY <1>y, <2>3, <2>4
<1>13. CASE Restart(p)
  <2>1. UNCHANGED <<users, conf, evicted, cmds>> /\ proc[p].pc = "restart" /\ xray' = conf
    BY <1>13 DEF Restart, fileVars
  <2>2. /\ proc'[p].pc = "commit" /\ proc'[p].db = proc[p].db /\ proc'[p].uuid = proc[p].uuid
        /\ Removed(p)' = Removed(p)
    BY <1>13, <1>g, <1>p DEF Restart
  <2>3. RemovedOK'
    BY <1>2, <1>c, <2>1, RemovedXray
  <2>4. Removing(p)'
    BY <1>2, <1>c, <2>1, <2>2 DEF Removing, Content
  <2> QED
    BY <1>y, <2>3, <2>4
<1>14. CASE RestartFails(p)
  <2>1. /\ UNCHANGED <<users, conf, evicted, cmds>> /\ proc[p].pc = "restart"
        /\ xray' \in {xray, conf} /\ Exit(p, FALSE)
    BY <1>14 DEF RestartFails, fileVars
  <2>2. RemovedOK'
    BY <1>2, <1>c, <2>1, RemovedXray
  <2> QED
    BY <1>x, <2>1, <2>2
<1>15. CASE Commit(p)
  <2>1. /\ UNCHANGED <<users, conf, xray, cmds>> /\ proc[p].pc = "commit" /\ Exit(p, TRUE)
        /\ evicted' = evicted \cup Removed(p)
    BY <1>15 DEF Commit, Removed
  <2>2. Removed(p) \subseteq proc[p].db /\ \A u \in proc[p].db : u.uuid <= cmds
    BY <1>2 DEF Removed, Named, Removing
  <2>3. OutOK'
    BY <1>2, <1>c, <2>1 DEF RemovedOK, OutOK, Removing, Content
  <2>4. Below(cmds)'
    BY <1>2, <2>1, <2>2 DEF RemovedOK, Below, Content
  <2>5. RemovedOK'
    BY <1>2, <2>1, <2>3, <2>4 DEF RemovedOK, Kept, Content
  <2> QED
    BY <1>x, <2>1, <2>5
<1>16. CASE Kill(p)
  <2>1. /\ UNCHANGED <<users, conf, evicted, cmds>> /\ Exit(p, FALSE)
        /\ xray' \in IF proc[p].pc = "live" THEN Partly(p) ELSE {xray}
    BY <1>16 DEF Kill, fileVars
  <2>2. RemovedOK'
    <3>1. CASE proc[p].pc = "live"
      BY <1>2, <1>c, <1>t, <2>1, <3>1, PartlyContent, RemovedXray
    <3>2. CASE proc[p].pc # "live"
      BY <1>2, <2>1, <3>2, RemovedFrame
    <3> QED
      BY <3>1, <3>2
  <2> QED
    BY <1>x, <2>1, <2>2
<1> QED
  BY <1>3, <1>4, <1>5, <1>6, <1>7, <1>8, <1>9, <1>10, <1>11, <1>12, <1>13, <1>14, <1>15, <1>16
     DEF Step

LEMMA RemovedNext ==
    ASSUME BaseInv, ServesInStep, RemovedInStep, [Next]_vars
    PROVE  RemovedInStep'
<1> SUFFICES ASSUME "overlap" \notin causes' PROVE RemovedInStep'
  BY DEF RemovedInStep
<1>1. CASE UNCHANGED vars
  <2>1. UNCHANGED <<users, conf, xray, evicted, cmds, proc, causes>>
    BY <1>1 DEF vars, fileVars, histVars
  <2>2. \A p \in Procs : Removed(p)' = Removed(p)
    BY <2>1 DEF Removed, Named
  <2>3. ASSUME NEW p \in Procs, Removing(p) PROVE Removing(p)'
    BY <2>1, <2>2, <2>3, RemovedFrame DEF Removing, Below, Kept, Content
  <2> QED
    BY <2>1, <2>3, RemovedFrame DEF RemovedInStep
<1>2. CASE XrayBoots
  <2>1. UNCHANGED <<users, conf, evicted, cmds, proc, causes>> /\ xray' = conf
    BY <1>2 DEF XrayBoots, fileVars, histVars
  <2>2. RemovedOK => RemovedOK'
    BY <2>1 DEF RemovedOK, OutOK, Below, Kept, Content
  <2>3. \A p \in Procs : Removed(p)' = Removed(p)
    BY <2>1 DEF Removed, Named
  <2>4. ASSUME NEW p \in Procs, Removing(p), Progress(p) PROVE Removing(p)'
    <3>1. Below(cmds - 1) => Below(cmds - 1)'
      BY <2>1 DEF Below, Content
    <3>2. \A db : Kept(db)'
      BY <2>1 DEF Kept, Content
    <3>3. proc[p].pc = "fill" => Content(xray') = {}
      BY <2>1, <2>4 DEF Progress, Content
    <3>4. proc[p].pc \in {"live", "commit"} => Removed(p) \cap Content(xray') = {}
      BY <2>1, <2>4 DEF Progress, Removing, Content
    <3> QED
      BY <2>1, <2>3, <2>4, <3>1, <3>2, <3>3, <3>4 DEF Removing, Content
  <2> QED
    BY <2>1, <2>2, <2>4 DEF RemovedInStep, ServesInStep
<1>3. ASSUME NEW p \in Procs, NEW cmd \in {"add", "rm", "apply"}, NEW n \in Names, Start(p, cmd, n)
      PROVE  RemovedInStep'
  <2>1. /\ UNCHANGED <<users, conf, xray, evicted, causes>> /\ cmds' = cmds + 1
        /\ \A q \in Procs : proc[q].pc = "idle"
    BY <1>3 DEF Start, fileVars
  <2>2. /\ \A q \in Procs : q # p => proc'[q] = proc[q]
        /\ proc'[p].pc = (IF cmd = "apply" THEN "reload" ELSE "load") /\ proc'[p].cmd = cmd
        /\ proc'[p].uuid = cmds' /\ proc'[p].db = {}
    BY <1>3 DEF Start, BaseInv, TypeOK, IdleProc
  <2>3. RemovedOK /\ cmds \in Nat
    BY <2>1, StandaloneBounds DEF RemovedInStep, BaseInv, TypeOK
  <2>4. Below(cmds)' /\ Below(cmds - 1)'
    <3>1. \A u \in Users : u.uuid \in Nat
      BY StandaloneBounds DEF Users
    <3>2. \A u \in Users : u.uuid <= cmds => u.uuid <= cmds + 1 /\ u.uuid <= (cmds + 1) - 1
      BY <2>3, <3>1
    <3>3. /\ evicted \cup Content(conf) \cup Content(xray) \subseteq Users
          /\ users # Broken => Content(users) \subseteq Users
      BY DEF BaseInv, TypeOK, Content, UserSets
    <3> QED
      BY <2>1, <2>3, <3>2, <3>3 DEF RemovedOK, Below, Content
  <2>5. RemovedOK'
    BY <2>1, <2>3, <2>4 DEF RemovedOK, OutOK, Kept, Content
  <2>6. Removed(p)' = {}
    BY <2>2 DEF Removed, Named
  <2>7. Kept(Removed(p))'
    BY <2>6 DEF Kept
  <2>8. Removing(p)'
    BY <2>2, <2>4, <2>6, <2>7 DEF Removing
  <2> QED
    BY <2>1, <2>2, <2>5, <2>8, RemovedAt
<1> QED
  BY <1>1, <1>2, <1>3, RemovedStep DEF Next

LEMMA RemovedInit == Init => RemovedInStep
BY IdleType, SetsApart, StandaloneBounds
   DEF Init, RemovedInStep, RemovedOK, OutOK, Below, Kept, Content

\* A user whose removal succeeded is never listed or admitted again (standalone.go
\* cliRemoveUser, applyStandalone), for any number of users, processes and commands that
\* fail or are killed later; unless commands ran at the same time.
THEOREM RemovalIsFinal == Spec => []RemovedIsOut
<1>1. BaseInv /\ RemovedInStep => RemovedIsOut
  BY SetsApart DEF BaseInv, TypeOK, RemovedInStep, RemovedOK, OutOK, RemovedIsOut, Content
<1> QED
  BY <1>1, RemovedInit, RemovedNext, ServesInit, ServesNext, BaseAlways, PTL DEF Spec


-----------------------------------------------------------------------------
(* The access log and its watcher: what the induction needs. *)

\* The characters of the log.
Char == {NL} \cup (Lines \X {1, 2})

\* What is still to be written of a line: its second character and newline, after its
\* first character, or its newline.
Pending(k) == Len(rest) = 2 /\ rest[1] = <<k, 2>>

\* A line is half written in its first or its second character, and nothing follows it yet.
RestOK ==
    /\ rest \in Seq(Char) /\ Len(rest) <= 2
    /\ Len(rest) = 1 => rest[1] = NL
    /\ Len(rest) = 2 => /\ rest[2] = NL
                        /\ \E k \in Lines : Pending(k)
    /\ \A k \in Lines : Pending(k) => Len(bytes) > 0 /\ bytes[Len(bytes)] = <<k, 1>>

\* A position speaks of this log or an earlier one; in this one it is at most one past
\* the end.
PlaceOK(p) == p.gen <= gen /\ (p.gen = gen => p.off <= Len(bytes) + 1)

\* Line k starts at character i.
Starts(k, i) == i \in 1..Len(bytes) /\ bytes[i] = <<k, 1>>

\* The inductive invariant: no line is in the log that is still to be written.
LogInv ==
    /\ DeviceTypeOK
    /\ RestOK
    /\ PlaceOK(mem) /\ PlaceOK(dsk)
    /\ tick = "open" => mem.seeded /\ statGen = mem.gen
    /\ \A k \in unlogged : \A i \in 1..Len(bytes) : ~Starts(k, i)

\* No line is dropped silently: one that is not reported lies behind the position, in
\* memory as on disk, that the agent will read from.
Reported == got \cup wire \cup {k \in Lines : conns[k] > 0}
From(p)  == IF p.gen = gen THEN p.off ELSE 0
Behind(p) == TouchedAfter(From(p))
             \cup {k \in Lines : Pending(k) /\ From(p) <= Len(bytes)}

SkipInStep ==
    \A p \in {mem, dsk} : Lines \ unlogged \subseteq Reported \cup excused \cup Behind(p)

\* Without a cause a line has been reported once, and if it is in this log both positions
\* are past its start.
InLog(p) == p.seeded /\ p.gen = gen => p.ino = ino /\ p.off <= Len(bytes)
Past(p, i) == p.seeded /\ p.gen = gen /\ i <= p.off

OnceInLog ==
    /\ mem.seeded = dsk.seeded
    /\ InLog(mem) /\ InLog(dsk)
    /\ \A k \in Lines : conns[k] <= 1 /\ (conns[k] > 0 => k \notin got \cup wire)
    /\ got \cap wire = {}
    /\ Reported \cap unlogged = {}
    /\ \A k \in Reported : \A i \in 1..Len(bytes) :
          Starts(k, i) => Past(mem, i) /\ Past(dsk, i)

OnceInStep == recounts = {} => OnceInLog

-----------------------------------------------------------------------------
(* Writing to the log. *)

\* The first character of a line is told from every other character of the log.
LEMMA Characters ==
    ASSUME NEW k \in Lines
    PROVE  /\ NL \in Char /\ <<k, 1>> \in Char /\ <<k, 2>> \in Char
           /\ \A j : NL # <<j, 1>> /\ <<k, 2>> # <<j, 1>> /\ (<<k, 1>> = <<j, 1>> => j = k)
<1>1. ASSUME NEW j PROVE NL # <<j, 1>>
  <2>1. Len(<<"nl">>) = 1 /\ Len(<<j, 1>>) = 2
    OBVIOUS
  <2> QED BY <2>1 DEF NL
<1>2. ASSUME NEW j PROVE <<k, 2>> # <<j, 1>> /\ (<<k, 1>> = <<j, 1>> => j = k)
  OBVIOUS
<1> QED BY <1>1, <1>2 DEF Char

\* What appending to the file does to it.
LEMMA Appended ==
    ASSUME bytes \in Seq(Char), NEW s \in Seq(Char), bytes' = bytes \o s
    PROVE  /\ bytes' \in Seq(Char)
           /\ Len(bytes') = Len(bytes) + Len(s)
           /\ Len(bytes) \in Nat /\ Len(s) \in Nat
           /\ \A i \in 1..Len(bytes) : bytes'[i] = bytes[i]
           /\ \A i \in 1..Len(s) : bytes'[Len(bytes) + i] = s[i]
OBVIOUS

\* The numbers the positions and the log are made of.
LEMMA LogTypes ==
    ASSUME LogInv
    PROVE  /\ bytes \in Seq(Char) /\ Len(bytes) \in Nat
           /\ unlogged \subseteq Lines /\ gen \in Nat /\ ino \in Nat
           /\ mem \in Position /\ dsk \in Position
           /\ mem.gen \in Nat /\ mem.off \in Nat /\ dsk.gen \in Nat /\ dsk.off \in Nat
           /\ mem.seeded \in BOOLEAN /\ dsk.seeded \in BOOLEAN
<1>1. bytes \in Seq(Char)
  BY DEF LogInv, DeviceTypeOK, Char
<1>2. Len(bytes) \in Nat
  BY <1>1
<1>3. mem \in Position /\ dsk \in Position /\ unlogged \subseteq Lines /\ gen \in Nat /\ ino \in Nat
  BY DEF LogInv, DeviceTypeOK
<1> QED BY <1>1, <1>2, <1>3 DEF Position

\* The parts of a line.
LEMMA Parts ==
    ASSUME NEW k \in Lines, NEW n \in {1, 2}
    PROVE  /\ Text(k) \in Seq(Char) /\ Len(Text(k)) = 3
           /\ Text(k)[1] = <<k, 1>> /\ Text(k)[2] = <<k, 2>> /\ Text(k)[3] = NL
           /\ SubSeq(Text(k), 1, n) \in Seq(Char) /\ Len(SubSeq(Text(k), 1, n)) = n
           /\ \A i \in 1..n : SubSeq(Text(k), 1, n)[i] = Text(k)[i]
           /\ SubSeq(Text(k), n + 1, 3) \in Seq(Char) /\ Len(SubSeq(Text(k), n + 1, 3)) = 3 - n
           /\ \A i \in 1..(3 - n) : SubSeq(Text(k), n + 1, 3)[i] = Text(k)[n + i]
<1>1. /\ Text(k) \in Seq(Char) /\ Len(Text(k)) = 3
      /\ Text(k)[1] = <<k, 1>> /\ Text(k)[2] = <<k, 2>> /\ Text(k)[3] = NL
  BY Characters DEF Text
<1>2. ASSUME NEW s \in Seq(Char), Len(s) = 3
      PROVE  /\ SubSeq(s, 1, n) \in Seq(Char) /\ Len(SubSeq(s, 1, n)) = n
             /\ \A i \in 1..n : SubSeq(s, 1, n)[i] = s[i]
             /\ SubSeq(s, n + 1, 3) \in Seq(Char) /\ Len(SubSeq(s, n + 1, 3)) = 3 - n
             /\ \A i \in 1..(3 - n) : SubSeq(s, n + 1, 3)[i] = s[n + i]
  <2>1. 1 \in 1..Len(s) + 1 /\ n + 1 \in 1..Len(s) + 1 /\ n \in 0..Len(s) /\ 3 \in 0..Len(s)
    BY <1>2
  <2>2. SubSeq(s, 1, n) \in Seq(Char) /\ SubSeq(s, n + 1, 3) \in Seq(Char)
    BY <1>2
  <2>3. Len(SubSeq(s, 1, n)) = n /\ \A i \in 1..n : SubSeq(s, 1, n)[i] = s[i]
    BY <1>2, SubSeqProperties, Z3
  <2>4. /\ Len(SubSeq(s, n + 1, 3)) = 3 - n
        /\ \A i \in 1..(3 - n) : SubSeq(s, n + 1, 3)[i] = s[n + i]
    BY <1>2, SubSeqProperties, Z3
  <2> QED BY <2>2, <2>3, <2>4
<1> QED BY <1>1, <1>2

Writes == \E k \in Lines : Log(k) \/ \E n \in {1, 2} : LogPart(k, n)

\* What writing makes of the log: a line that was unlogged gets its first character right
\* behind the end, and its second one behind that, now or later.
Grown ==
    /\ bytes' \in Seq(Char) /\ Len(bytes) \in Nat /\ Len(bytes') \in Nat
    /\ Len(bytes) <= Len(bytes')
    /\ \A i \in 1..Len(bytes) : bytes'[i] = bytes[i]
    /\ unlogged' \subseteq unlogged
    /\ \A j \in Lines : \A i \in 1..Len(bytes') :
          i > Len(bytes) /\ bytes'[i] = <<j, 1>> => j \in unlogged \ unlogged'
    /\ \A j \in unlogged \ unlogged' :
          \/ Len(bytes') >= Len(bytes) + 2 /\ bytes'[Len(bytes) + 2] = <<j, 2>>
          \/ Len(bytes') = Len(bytes) + 1 /\ Pending(j)'
    /\ \A j \in Lines : Pending(j) =>
          Len(bytes') >= Len(bytes) + 1 /\ bytes'[Len(bytes) + 1] = <<j, 2>>
    /\ RestOK'
    /\ UNCHANGED <<ino, gen, agentVars, panelVars, excused, recounts>>

\* Writing a line whole, its beginning or its end only adds to the log: no line starts twice.
LEMMA LogGrows ==
    ASSUME LogInv, NEW k \in Lines, Log(k) PROVE Grown
<1> DEFINE s == Text(k)
<1>0. bytes \in Seq(Char) /\ Len(bytes) \in Nat /\ unlogged \subseteq Lines /\ rest = <<>>
  BY LogTypes DEF Log
<1>1. /\ s \in Seq(Char) /\ Len(s) = 3 /\ s[1] = <<k, 1>> /\ s[2] = <<k, 2>> /\ s[3] = NL
  BY Parts
<1>2. bytes' = bytes \o s /\ unlogged' = unlogged \ {k} /\ k \in unlogged /\ rest' = <<>>
  BY <1>0 DEF Log
<1> HIDE DEF s
<1>3. /\ bytes' \in Seq(Char) /\ Len(bytes') = Len(bytes) + 3
      /\ \A i \in 1..Len(bytes) : bytes'[i] = bytes[i]
      /\ \A i \in 1..3 : bytes'[Len(bytes) + i] = s[i]
  BY <1>0, <1>1, <1>2, Appended
<1>4. ASSUME NEW j \in Lines, NEW i \in 1..Len(bytes'), i > Len(bytes), bytes'[i] = <<j, 1>>
      PROVE  j \in unlogged \ unlogged'
  <2>1. i - Len(bytes) \in 1..3 /\ i = Len(bytes) + (i - Len(bytes))
    BY <1>0, <1>3, <1>4
  <2>2. bytes'[i] = s[i - Len(bytes)]
    BY <1>3, <2>1
  <2>3. s[i - Len(bytes)] = <<k, 1>>
    <3> DEFINE d == i - Len(bytes)
    <3>1. d = 1 \/ d = 2 \/ d = 3
      BY <2>1
    <3> HIDE DEF d
    <3>2. s[d] = <<j, 1>>
      BY <1>4, <2>2 DEF d
    <3>3. d # 2 /\ d # 3
      BY <1>1, <3>2, Characters
    <3>4. s[d] = <<k, 1>>
      BY <1>1, <3>1, <3>3
    <3> QED BY <3>4 DEF d
  <2>4. j = k
    BY <1>4, <2>2, <2>3, Characters
  <2> QED BY <1>2, <2>4
<1>5. RestOK'
  BY <1>2, <1>3 DEF RestOK, Pending
<1>6. \A j \in Lines : ~Pending(j)
  BY <1>0 DEF Pending
<1>7. bytes'[Len(bytes) + 2] = <<k, 2>>
  BY <1>1, <1>3
<1>8. UNCHANGED <<ino, gen, agentVars, panelVars, excused, recounts>>
  BY DEF Log
<1> QED BY <1>0, <1>2, <1>3, <1>4, <1>5, <1>6, <1>7, <1>8 DEF Grown

LEMMA PartGrows ==
    ASSUME LogInv, NEW k \in Lines, NEW n \in {1, 2}, LogPart(k, n) PROVE Grown
<1> DEFINE s == SubSeq(Text(k), 1, n)
           t == SubSeq(Text(k), n + 1, 3)
<1>0. bytes \in Seq(Char) /\ Len(bytes) \in Nat /\ unlogged \subseteq Lines /\ rest = <<>>
  BY LogTypes DEF LogPart
<1>1. /\ s \in Seq(Char) /\ Len(s) = n /\ s[1] = <<k, 1>> /\ (n = 2 => s[2] = <<k, 2>>)
      /\ t \in Seq(Char) /\ Len(t) = 3 - n
      /\ n = 1 => t[1] = <<k, 2>> /\ t[2] = NL
      /\ n = 2 => t[1] = NL
  <2>1. CASE n = 1
    <3>1. t[1] = Text(k)[2] /\ t[2] = Text(k)[3] /\ s[1] = Text(k)[1]
      BY <2>1, Parts
    <3> QED BY <2>1, <3>1, Parts
  <2>2. CASE n = 2
    <3>1. t[1] = Text(k)[3] /\ s[1] = Text(k)[1] /\ s[2] = Text(k)[2]
      BY <2>2, Parts
    <3> QED BY <2>2, <3>1, Parts
  <2> QED BY <2>1, <2>2
<1>2. bytes' = bytes \o s /\ unlogged' = unlogged \ {k} /\ k \in unlogged /\ rest' = t
  BY <1>0 DEF LogPart
<1> HIDE DEF s, t
<1>3. /\ bytes' \in Seq(Char) /\ Len(bytes') = Len(bytes) + n
      /\ \A i \in 1..Len(bytes) : bytes'[i] = bytes[i]
      /\ \A i \in 1..n : bytes'[Len(bytes) + i] = s[i]
  BY <1>0, <1>1, <1>2, Appended
<1>4. ASSUME NEW j \in Lines, NEW i \in 1..Len(bytes'), i > Len(bytes), bytes'[i] = <<j, 1>>
      PROVE  j \in unlogged \ unlogged'
  <2>1. i - Len(bytes) \in 1..n /\ i = Len(bytes) + (i - Len(bytes))
    BY <1>0, <1>3, <1>4
  <2>2. bytes'[i] = s[i - Len(bytes)]
    BY <1>3, <2>1
  <2>3. s[i - Len(bytes)] = <<k, 1>>
    BY <1>1, <1>4, <2>1, <2>2, Characters
  <2>4. j = k
    BY <1>4, <2>2, <2>3, Characters
  <2> QED BY <1>2, <2>4
<1>5. RestOK'
  <2>1. \A j \in Lines : Pending(j)' => n = 1 /\ j = k
    BY <1>1, <1>2 DEF Pending
  <2>2. n = 1 => bytes'[Len(bytes')] = <<k, 1>>
    BY <1>1, <1>3, <1>0
  <2>3. n = 1 => Pending(k)'
    BY <1>1, <1>2 DEF Pending
  <2> QED BY <1>0, <1>1, <1>2, <1>3, <2>1, <2>2, <2>3 DEF RestOK
<1>6. \A j \in Lines : ~Pending(j)
  BY <1>0 DEF Pending
<1>7. \/ n = 2 /\ bytes'[Len(bytes) + 2] = <<k, 2>>
      \/ n = 1 /\ Pending(k)'
  <2>1. CASE n = 2
    BY <1>1, <1>3, <2>1
  <2>2. CASE n = 1
    BY <1>1, <1>2, <2>2 DEF Pending
  <2> QED BY <2>1, <2>2
<1>8. UNCHANGED <<ino, gen, agentVars, panelVars, excused, recounts>>
  BY DEF LogPart
<1> QED BY <1>0, <1>2, <1>3, <1>4, <1>5, <1>6, <1>7, <1>8 DEF Grown

LEMMA RestGrows ==
    ASSUME LogInv, LogRest PROVE Grown
<1>0. bytes \in Seq(Char) /\ Len(bytes) \in Nat /\ unlogged \subseteq Lines /\ rest \in Seq(Char)
      /\ Len(rest) \in 1..2
  <2>1. rest \in Seq(Char) /\ Len(rest) <= 2 /\ rest # <<>>
    BY DEF LogInv, LogRest, RestOK
  <2>2. Len(rest) \in Nat /\ Len(rest) # 0
    BY <2>1, EmptySeq
  <2>3. ASSUME NEW n \in Nat, n # 0, n <= 2 PROVE n \in 1..2
    BY <2>3
  <2>4. Len(rest) \in 1..2
    BY <2>1, <2>2, <2>3
  <2> QED BY <2>1, <2>4, LogTypes
<1>2. bytes' = bytes \o rest /\ unlogged' = unlogged /\ rest' = <<>>
  BY <1>0 DEF LogRest
<1>3. /\ bytes' \in Seq(Char) /\ Len(bytes') = Len(bytes) + Len(rest)
      /\ \A i \in 1..Len(bytes) : bytes'[i] = bytes[i]
      /\ \A i \in 1..Len(rest) : bytes'[Len(bytes) + i] = rest[i]
  BY <1>0, <1>2, Appended
<1>4. ASSUME NEW j \in Lines, NEW i \in 1..Len(bytes'), i > Len(bytes), bytes'[i] = <<j, 1>>
      PROVE  FALSE
  <2>1. i - Len(bytes) \in 1..Len(rest) /\ i = Len(bytes) + (i - Len(bytes))
    BY <1>0, <1>3, <1>4
  <2>2. bytes'[i] = rest[i - Len(bytes)]
    BY <1>3, <2>1
  <2>3. \/ rest[i - Len(bytes)] = NL
        \/ \E k \in Lines : rest[i - Len(bytes)] = <<k, 2>>
    BY <1>0, <2>1 DEF LogInv, RestOK, Pending
  <2> QED BY <1>4, <2>2, <2>3, Characters
<1>5. RestOK'
  BY <1>2, <1>3 DEF RestOK, Pending
<1>6. \A j \in Lines : Pending(j) =>
          Len(bytes') >= Len(bytes) + 1 /\ bytes'[Len(bytes) + 1] = <<j, 2>>
  BY <1>0, <1>3 DEF Pending
<1>8. UNCHANGED <<ino, gen, agentVars, panelVars, excused, recounts>>
  BY DEF LogRest
<1>a. Len(bytes') \in Nat /\ Len(bytes) <= Len(bytes')
  BY <1>0, <1>3
<1>b. unlogged' \subseteq unlogged /\ \A j : j \notin unlogged \ unlogged'
  BY <1>2
<1> QED BY <1>0, <1>3, <1>4, <1>5, <1>6, <1>8, <1>a, <1>b DEF Grown

\* Such a step keeps the types and the positions.
LEMMA GrowsInv == ASSUME LogInv, Grown PROVE LogInv'
<1>1. /\ ino' = ino /\ gen' = gen /\ mem' = mem /\ dsk' = dsk /\ tick' = tick /\ got' = got
      /\ statGen' = statGen /\ wire' = wire /\ ing' = ing /\ user' = user /\ rows' = rows
      /\ conns' = conns /\ excused' = excused /\ recounts' = recounts
  BY DEF Grown, agentVars, panelVars
<1>2. RestOK' /\ bytes' \in Seq(Char) /\ unlogged' \subseteq unlogged
  BY DEF Grown
<1>3. DeviceTypeOK'
  BY <1>1, <1>2 DEF LogInv, DeviceTypeOK, RestOK, Char
<1>4. PlaceOK(mem)' /\ PlaceOK(dsk)'
  BY <1>1, LogTypes DEF LogInv, PlaceOK, Grown
<1>5. ASSUME NEW k \in unlogged', NEW i \in 1..Len(bytes'), Starts(k, i)' PROVE FALSE
  <2>1. k \in unlogged /\ k \in Lines
    BY <1>2, <1>5, LogTypes
  <2>2. CASE i > Len(bytes)
    BY <1>5, <2>1, <2>2 DEF Grown, Starts
  <2>3. CASE i \in 1..Len(bytes)
    BY <1>5, <2>1, <2>3 DEF Grown, Starts, LogInv
  <2> QED BY <1>5, <2>2, <2>3 DEF Grown
<1> QED BY <1>1, <1>2, <1>3, <1>4, <1>5 DEF LogInv

-----------------------------------------------------------------------------
(* The read position. *)

\* How far a read goes: to the end of the log, or one past it when its last line is cut
\* (devices.go counts a newline for every line it scans).
LEMMA ReadBounds ==
    ASSUME LogInv
    PROVE  /\ StartAt \in Nat /\ StartAt \in {0, mem.off} /\ StartAt <= Len(bytes)
           /\ ReadTo \in Nat /\ Len(bytes) <= ReadTo /\ mem.off <= ReadTo
           /\ mem.off <= Len(bytes) + 1 => ReadTo <= Len(bytes) + 1
           /\ mem.off <= Len(bytes) /\ ReadTo # Len(bytes) + 1 => ReadTo = Len(bytes)
           /\ mem.off >= Len(bytes) => ReadTo = mem.off
<1>1. Len(bytes) \in Nat /\ mem.off \in Nat
  BY LogTypes
<1>2. CASE Len(bytes) <= mem.off
  BY <1>1, <1>2 DEF StartAt, ReadTo
<1>3. CASE Len(bytes) > mem.off
  BY <1>1, <1>3 DEF StartAt, ReadTo
<1> QED BY <1>1, <1>2, <1>3

\* saveOffset leaves memory and file alike, or records that it did not.
LEMMA Saved ==
    ASSUME LogInv, NEW p \in Position, NEW cs \in SUBSET RecountKinds, SaveOffset(p, cs)
    PROVE  /\ mem' = p /\ dsk' \in {p, dsk} /\ mem' \in Position /\ dsk' \in Position
           /\ recounts' \subseteq RecountKinds /\ cs \subseteq recounts'
           /\ recounts' = {} => dsk' = p
BY LogTypes DEF SaveOffset, RecountKinds

\* The position that a read leaves.
ReadPlace == [off |-> ReadTo, ino |-> mem.ino, seeded |-> TRUE,
              gen |-> IF ino = mem.ino /\ mem.off <= Len(bytes) THEN gen ELSE mem.gen]
SeedPlace == [off |-> Len(bytes), ino |-> ino, seeded |-> TRUE, gen |-> gen]

\* The positions that a look at the log and a read of it leave behind.
LEMMA NewPlaces ==
    ASSUME LogInv
    PROVE  /\ ReadPlace \in Position /\ PlaceOK(ReadPlace)
           /\ SeedPlace \in Position /\ PlaceOK(SeedPlace)
<1>0. /\ mem.ino \in Nat /\ mem.gen \in Nat /\ gen \in Nat /\ ino \in Nat /\ Len(bytes) \in Nat
      /\ mem.off \in Nat
  BY LogTypes DEF Position
<1>1. ReadPlace \in Position
  BY <1>0, ReadBounds DEF ReadPlace, Position
<1>2. PlaceOK(ReadPlace)
  <2>1. CASE ino = mem.ino /\ mem.off <= Len(bytes)
    BY <1>0, <2>1, ReadBounds DEF ReadPlace, PlaceOK
  <2>2. CASE ~(ino = mem.ino /\ mem.off <= Len(bytes))
    <3>1. ReadPlace.gen = mem.gen /\ ReadPlace.off = ReadTo
      BY <2>2 DEF ReadPlace
    <3> QED BY <1>0, <3>1, ReadBounds DEF LogInv, PlaceOK
  <2> QED BY <2>1, <2>2
<1>3. SeedPlace \in Position /\ PlaceOK(SeedPlace)
  BY <1>0 DEF SeedPlace, Position, PlaceOK
<1> QED BY <1>1, <1>2, <1>3

-----------------------------------------------------------------------------
(* Types, and where the positions are. *)

\* A step that leaves the log alone.
LEMMA LogKept ==
    ASSUME LogInv, UNCHANGED logVars
    PROVE  /\ RestOK' /\ (\A k \in unlogged' : \A i \in 1..Len(bytes') : ~Starts(k, i)')
           /\ \A p \in Position : PlaceOK(p) => PlaceOK(p)'
           /\ bytes' = bytes /\ rest' = rest /\ gen' = gen /\ ino' = ino /\ unlogged' = unlogged
BY DEF logVars, LogInv, RestOK, Pending, Starts, PlaceOK

\* The types, one by one.
AgentTypes ==
    /\ mem \in Position /\ dsk \in Position /\ tick \in {"idle", "open", "send"}
    /\ got \subseteq Lines /\ (got # {} <=> tick = "send")
    /\ statGen \in Nat

PanelTypes ==
    /\ wire \subseteq Lines /\ ing \in BOOLEAN /\ user \in BOOLEAN
    /\ rows \in {"none", "recent", "old"}
    /\ conns \in [Lines -> 0..ConnsCap]

\* The types of the components.
LEMMA TypeParts ==
    /\ DeviceTypeOK => AgentTypes /\ PanelTypes
    /\ UNCHANGED logVars /\ DeviceTypeOK /\ AgentTypes' /\ PanelTypes' /\ excused' \subseteq Lines
         /\ recounts' \subseteq RecountKinds => DeviceTypeOK'
    /\ UNCHANGED agentVars /\ AgentTypes => AgentTypes'
    /\ UNCHANGED panelVars /\ PanelTypes => PanelTypes'
BY DEF DeviceTypeOK, AgentTypes, PanelTypes, logVars, agentVars, panelVars

\* The steps that neither write the log nor move a position forward.
PassesOn == SendDevices \/ SendFails \/ ReportLost \/ AgentStop \/ Allowed \/ UpsertDevice
         \/ DeleteUser \/ Age \/ Purge

LEMMA MovesInv == ASSUME LogInv, PassesOn PROVE LogInv'
<1>0. DeviceTypeOK /\ AgentTypes /\ PanelTypes /\ excused \subseteq Lines
      /\ recounts \subseteq RecountKinds
  BY TypeParts DEF LogInv, DeviceTypeOK
<1>1. UNCHANGED logVars /\ dsk' = dsk /\ mem' \in {mem, dsk} /\ statGen' = statGen
      /\ recounts' = recounts
  BY DEF PassesOn, SendDevices, SendFails, ReportLost, AgentStop, Restored, Allowed, UpsertDevice,
     DeleteUser, Age, Purge, agentVars
<1>2. AgentTypes'
  <2>1. CASE SendDevices \/ SendFails \/ AgentStop
    <3>1. tick' = "idle" /\ got' = {}
      BY <2>1 DEF SendDevices, SendFails, AgentStop
    <3> QED BY <1>0, <1>1, <3>1 DEF AgentTypes
  <2>2. CASE UNCHANGED agentVars
    BY <1>0, <2>2, TypeParts
  <2> QED BY <2>1, <2>2 DEF PassesOn, ReportLost, Allowed, UpsertDevice, DeleteUser, Age, Purge
<1>3. PanelTypes' /\ excused' \subseteq Lines
  <2>1. CASE SendDevices
    BY <1>0, <2>1 DEF SendDevices, AgentTypes, PanelTypes
  <2>2. CASE SendFails \/ AgentStop
    BY <1>0, <2>2, TypeParts DEF SendFails, AgentStop, AgentTypes
  <2>3. CASE ReportLost \/ Allowed
    BY <1>0, <2>3 DEF ReportLost, Allowed, PanelTypes
  <2>4. CASE UpsertDevice
    <3>1. ASSUME NEW k \in Lines PROVE (IF k \in wire /\ conns[k] < ConnsCap THEN conns[k] + 1
                                         ELSE conns[k]) \in 0..ConnsCap
      BY <1>0 DEF PanelTypes, ConnsCap
    <3>2. conns' \in [Lines -> 0..ConnsCap]
      BY <2>4, <3>1 DEF UpsertDevice
    <3> QED BY <1>0, <2>4, <3>2 DEF UpsertDevice, PanelTypes
  <2>5. CASE DeleteUser \/ Age \/ Purge
    BY <1>0, <2>5 DEF DeleteUser, Age, Purge, PanelTypes
  <2> QED BY <2>1, <2>2, <2>3, <2>4, <2>5 DEF PassesOn
<1>4. DeviceTypeOK'
  BY <1>0, <1>1, <1>2, <1>3, TypeParts
<1>5. PlaceOK(mem)' /\ PlaceOK(dsk)'
  <2>1. \A p \in Position : PlaceOK(p) => PlaceOK(p)'
    BY <1>1, LogKept
  <2>2. mem \in Position /\ dsk \in Position /\ PlaceOK(mem) /\ PlaceOK(dsk)
    BY LogTypes DEF LogInv
  <2>3. \A p \in {mem, dsk} : PlaceOK(p)'
    BY <2>1, <2>2
  <2> QED BY <1>1, <2>3 DEF PlaceOK
<1>6. tick' = "open" => mem'.seeded /\ statGen' = mem'.gen
  <2>1. CASE SendDevices \/ SendFails \/ AgentStop
    BY <2>1 DEF SendDevices, SendFails, AgentStop
  <2>2. CASE UNCHANGED agentVars
    BY <2>2 DEF LogInv, agentVars
  <2> QED BY <2>1, <2>2 DEF PassesOn, ReportLost, Allowed, UpsertDevice, DeleteUser, Age, Purge
<1> QED BY <1>1, <1>4, <1>5, <1>6, LogKept DEF LogInv

LEMMA CutInv == ASSUME LogInv, LogCut PROVE LogInv'
<1>1. /\ bytes' = bytes /\ rest' = <<>>
         /\ UNCHANGED <<unlogged, ino, gen, mem, dsk, tick, got, statGen>>
      /\ UNCHANGED panelVars /\ recounts' = recounts /\ excused' \subseteq excused \cup Lines
  BY DEF LogCut, agentVars
<1>2. RestOK'
  BY <1>1 DEF RestOK, Pending
<1>3. DeviceTypeOK'
  BY <1>1 DEF LogInv, DeviceTypeOK, panelVars
<1>4. PlaceOK(mem)' /\ PlaceOK(dsk)'
      /\ \A k \in unlogged' : \A i \in 1..Len(bytes') : ~Starts(k, i)'
  BY <1>1 DEF LogInv, PlaceOK, Starts
<1> QED BY <1>1, <1>2, <1>3, <1>4 DEF LogInv

LEMMA RotateInv == ASSUME LogInv, NEW n \in Nat, Rotate(n) PROVE LogInv'
<1>1. /\ bytes' = <<>> /\ rest' = <<>> /\ UNCHANGED <<unlogged, mem, dsk, tick, got, statGen>>
      /\ gen' = gen + 1 /\ ino' = n
      /\ UNCHANGED panelVars /\ recounts' = recounts /\ excused' = excused \cup Unread
  BY DEF Rotate, agentVars
<1>2. RestOK'
  BY <1>1 DEF RestOK, Pending
<1>3. Unread \subseteq Lines
  BY DEF Unread, TouchedAfter
<1>4. DeviceTypeOK'
  <2>1. AgentTypes' /\ PanelTypes'
    BY <1>1, TypeParts DEF LogInv, AgentTypes, PanelTypes, panelVars
  <2> QED BY <1>1, <1>3, <2>1, LogTypes DEF LogInv, DeviceTypeOK, AgentTypes, PanelTypes
<1>5. PlaceOK(mem)' /\ PlaceOK(dsk)'
  BY <1>1, LogTypes DEF LogInv, PlaceOK
<1>6. \A k \in unlogged' : \A i \in 1..Len(bytes') : ~Starts(k, i)'
  BY <1>1 DEF Starts
<1> QED BY <1>1, <1>2, <1>4, <1>5, <1>6 DEF LogInv

LEMMA SeedInv == ASSUME LogInv, Seed PROVE LogInv'
<1>1. /\ UNCHANGED logVars /\ UNCHANGED panelVars /\ tick' = tick /\ tick = "idle" /\ got' = got
      /\ statGen' = statGen /\ SaveOffset(SeedPlace, recounts)
      /\ excused' = excused \cup TouchedUpTo(Len(bytes))
  BY DEF Seed, SeedPlace
<1>2. mem' = SeedPlace /\ dsk' \in {SeedPlace, dsk} /\ recounts' \subseteq RecountKinds
  BY <1>1, Saved, NewPlaces DEF LogInv, DeviceTypeOK
<1>3. mem' \in Position /\ dsk' \in Position
  BY <1>2, NewPlaces, LogTypes
<1>4. DeviceTypeOK'
  <2>1. AgentTypes' /\ PanelTypes'
    BY <1>1, <1>3, TypeParts DEF LogInv, AgentTypes
  <2> QED BY <1>1, <1>2, <2>1, TypeParts DEF LogInv, DeviceTypeOK, TouchedUpTo
<1>5. PlaceOK(mem)' /\ PlaceOK(dsk)'
  <2>1. \A p \in {SeedPlace, dsk} : PlaceOK(p)'
    <3>1. SeedPlace \in Position /\ PlaceOK(SeedPlace) /\ dsk \in Position /\ PlaceOK(dsk)
      BY NewPlaces, LogTypes DEF LogInv
    <3> QED BY <1>1, <3>1, LogKept
  <2> QED BY <1>2, <2>1, LogKept, <1>1 DEF PlaceOK
<1> QED BY <1>1, <1>4, <1>5, LogKept DEF LogInv

LEMMA StatInv == ASSUME LogInv, Stat PROVE LogInv'
<1>1. /\ UNCHANGED logVars /\ UNCHANGED panelVars /\ got' = got /\ dsk' = dsk
         /\ recounts' = recounts
      /\ mem' = [mem EXCEPT !.off = StartAt, !.ino = ino, !.gen = gen]
      /\ tick' \in {"idle", "open"} /\ tick = "idle" /\ mem.seeded /\ statGen' = gen
      /\ excused' \subseteq excused \cup TouchedUpTo(StartAt)
  BY DEF Stat
<1>2. /\ mem' \in Position /\ mem'.off = StartAt /\ mem'.gen = gen /\ mem'.seeded
  BY <1>1, ReadBounds, LogTypes DEF Position
<1>3. DeviceTypeOK'
  <2>1. AgentTypes' /\ PanelTypes'
    BY <1>1, <1>2, TypeParts, LogTypes DEF LogInv, AgentTypes
  <2> QED BY <1>1, <2>1, TypeParts DEF LogInv, DeviceTypeOK, TouchedUpTo
<1>4. PlaceOK(mem)'
  BY <1>1, <1>2, ReadBounds, LogTypes DEF PlaceOK, logVars
<1>5. PlaceOK(dsk)'
  BY <1>1 DEF LogInv, PlaceOK, logVars
<1>6. statGen' = mem'.gen
  BY <1>1, <1>2
<1> QED BY <1>1, <1>2, <1>3, <1>4, <1>5, <1>6, LogKept DEF LogInv

LEMMA ReadInv == ASSUME LogInv, ReadLog PROVE LogInv'
<1> DEFINE cs == recounts \cup (IF statGen # gen THEN {"swap"} ELSE {})
                        \cup (IF ReadTo = Len(bytes) + 1 THEN {"partial"} ELSE {})
<1>1. /\ UNCHANGED logVars /\ UNCHANGED panelVars /\ got' = Matches(mem.off)
      /\ tick' = (IF got' = {} THEN "idle" ELSE "send")
      /\ statGen' = statGen /\ SaveOffset(ReadPlace, cs)
      /\ excused' \subseteq excused \cup Lines
  BY DEF ReadLog, ReadPlace, TouchedAfter, TouchedUpTo
<1>2. cs \in SUBSET RecountKinds
  BY DEF RecountKinds, LogInv, DeviceTypeOK
<1> HIDE DEF cs
<1>3. mem' = ReadPlace /\ dsk' \in {ReadPlace, dsk} /\ recounts' \subseteq RecountKinds
  BY <1>1, <1>2, Saved, NewPlaces
<1>4. mem' \in Position /\ dsk' \in Position
  BY <1>3, NewPlaces, LogTypes
<1>5. DeviceTypeOK'
  <2>1. got' \subseteq Lines
    BY <1>1 DEF Matches
  <2>2. AgentTypes' /\ PanelTypes'
    BY <1>1, <1>4, <2>1, TypeParts DEF LogInv, AgentTypes
  <2> QED BY <1>1, <1>3, <2>2, TypeParts DEF LogInv, DeviceTypeOK
<1>6. PlaceOK(mem)' /\ PlaceOK(dsk)'
  <2>1. \A p \in {ReadPlace, dsk} : PlaceOK(p)'
    <3>1. ReadPlace \in Position /\ PlaceOK(ReadPlace) /\ dsk \in Position /\ PlaceOK(dsk)
      BY NewPlaces, LogTypes DEF LogInv
    <3> QED BY <1>1, <3>1, LogKept
  <2> QED BY <1>3, <2>1, LogKept, <1>1 DEF PlaceOK
<1>7. tick' # "open"
  BY <1>1
<1> QED BY <1>1, <1>5, <1>6, <1>7, LogKept DEF LogInv

LEMMA LogInvInit == DeviceInit => LogInv
<1> SUFFICES ASSUME DeviceInit PROVE LogInv
  OBVIOUS
<1>1. unlogged \subseteq Lines /\ bytes \in Seq(Char)
      /\ \A k \in unlogged : \A i \in 1..Len(bytes) : ~Starts(k, i)
  <2>1. CASE unlogged = Lines
    <3>1. bytes = <<>> /\ unlogged \subseteq Lines
      BY <2>1 DEF DeviceInit
    <3>2. bytes \in Seq(Char) /\ Len(bytes) = 0
      BY <3>1, EmptySeq
    <3> QED BY <3>1, <3>2
  <2>2. CASE unlogged # Lines
    <3>1. PICK j \in Lines : unlogged = Lines \ {j}
      BY <2>2 DEF DeviceInit
    <3>2. j = CHOOSE k \in Lines : k \notin unlogged
      <4>1. \A k \in Lines : k \notin unlogged <=> k = j
        BY <3>1
      <4> QED BY <4>1
    <3>3. bytes = Text(j)
      BY <2>2, <3>2 DEF DeviceInit
    <3>4. bytes \in Seq(Char) /\ Len(bytes) = 3 /\ bytes[1] = <<j, 1>>
          /\ bytes[2] = <<j, 2>> /\ bytes[3] = NL
      BY <3>3, Parts
    <3>5. ASSUME NEW k \in unlogged, NEW i \in 1..Len(bytes), Starts(k, i) PROVE FALSE
      <4>1. bytes[i] = <<k, 1>> /\ k # j /\ (i = 1 \/ i = 2 \/ i = 3)
        BY <3>1, <3>4, <3>5 DEF Starts
      <4> QED BY <3>4, <4>1, Characters
    <3> QED BY <3>1, <3>4, <3>5
  <2> QED BY <2>1, <2>2
<1>2. NoPosition \in Position
  BY DEF NoPosition, Position
<1>3. DeviceTypeOK
  <2>1. conns \in [Lines -> 0..ConnsCap]
    BY DEF DeviceInit, ConnsCap
  <2>2. AgentTypes /\ PanelTypes
    BY <1>2, <2>1 DEF DeviceInit, AgentTypes, PanelTypes
  <2>3. /\ ino \in Nat /\ gen \in Nat /\ Len(rest) <= 2 /\ statGen \in Nat
        /\ excused \subseteq Lines /\ recounts \subseteq RecountKinds
    BY DEF DeviceInit
  <2> QED BY <1>1, <2>2, <2>3 DEF DeviceTypeOK, Char, AgentTypes, PanelTypes
<1>4. PlaceOK(NoPosition)
  <2>1. Len(bytes) \in Nat
    BY <1>1
  <2> QED BY <2>1 DEF DeviceInit, PlaceOK, NoPosition
<1>5. RestOK
  BY DEF DeviceInit, RestOK, Pending
<1> QED BY <1>1, <1>3, <1>4, <1>5 DEF DeviceInit, LogInv

LEMMA LogInvNext == LogInv /\ [DeviceNext]_deviceVars => LogInv'
<1> SUFFICES ASSUME LogInv, [DeviceNext]_deviceVars PROVE LogInv'
  OBVIOUS
<1>1. CASE Writes \/ LogRest
  BY <1>1, LogGrows, PartGrows, RestGrows, GrowsInv DEF Writes
<1>2. CASE LogCut
  BY <1>2, CutInv
<1>3. CASE Rotate(ino) \/ Rotate(ino + 1)
  BY <1>3, RotateInv, LogTypes
<1>4. CASE Seed
  BY <1>4, SeedInv
<1>5. CASE Stat
  BY <1>5, StatInv
<1>6. CASE ReadLog
  BY <1>6, ReadInv
<1>7. CASE PassesOn
  BY <1>7, MovesInv
<1>8. CASE UNCHANGED deviceVars
  <2>1. UNCHANGED logVars /\ UNCHANGED agentVars /\ UNCHANGED panelVars /\ excused' = excused
        /\ recounts' = recounts
    BY <1>8 DEF deviceVars, logVars, agentVars, panelVars
  <2> QED BY <2>1, LogKept, TypeParts, LogTypes DEF LogInv, DeviceTypeOK, agentVars
<1> QED BY <1>1, <1>2, <1>3, <1>4, <1>5, <1>6, <1>7, <1>8 DEF DeviceNext, Tick, Writes, PassesOn

\* Every state of the log, its watcher (devices.go) and the device rows is well typed, and
\* there is something to send exactly while the tick is about to send it.
THEOREM LogTypeCorrect == DeviceSpec => []DeviceTypeOK
<1>1. LogInv => DeviceTypeOK
  BY DEF LogInv
<1> QED BY <1>1, LogInvInit, LogInvNext, PTL DEF DeviceSpec

-----------------------------------------------------------------------------
(* Why no line is dropped silently. *)

\* Where a position makes the next read start.
LEMMA FromBounds ==
    ASSUME LogInv, NEW p \in {mem, dsk}
    PROVE  From(p) \in Nat /\ From(p) <= Len(bytes) + 1
BY LogTypes DEF LogInv, PlaceOK, From

\* A line half written has its first character as the last of the log.
LEMMA PendingTouched ==
    ASSUME LogInv, NEW k \in Lines, Pending(k), NEW n \in Nat, n < Len(bytes)
    PROVE  k \in TouchedAfter(n) /\ k \in TouchedUpTo(Len(bytes))
<1>1. Len(bytes) \in 1..Len(bytes) /\ bytes[Len(bytes)] = <<k, 1>>
  BY LogTypes DEF LogInv, RestOK
<1>2. \E i \in 1..Len(bytes) : i > n /\ bytes[i] \in {<<k, 1>>, <<k, 2>>}
  BY <1>1
<1>3. \E i \in 1..Len(bytes) : i <= Len(bytes) /\ bytes[i] \in {<<k, 1>>, <<k, 2>>}
  <2>1. Len(bytes) \in Nat
    BY LogTypes
  <2> QED BY <1>1, <2>1
<1> QED BY <1>2, <1>3 DEF TouchedAfter, TouchedUpTo

\* What is appended lies behind every position, and what did lie there still does.
LEMMA SkipGrown == ASSUME LogInv, SkipInStep, Grown PROVE SkipInStep'
<1>1. mem' = mem /\ dsk' = dsk /\ gen' = gen /\ Reported' = Reported /\ excused' = excused
  BY DEF Grown, agentVars, panelVars, Reported
<1>2. ASSUME NEW p \in {mem, dsk}, NEW k \in Lines \ unlogged'
      PROVE  k \in Reported' \cup excused' \cup {j \in Lines : j \in TouchedAfter(From(p))' \/
                                                     (Pending(j)' /\ From(p) <= Len(bytes'))}
  <2>f. PICK f \in Nat : f = From(p)
    BY FromBounds
  <2>0. f \in Nat /\ f <= Len(bytes) + 1 /\ From(p)' = f /\ Len(bytes) \in Nat
        /\ Len(bytes') \in Nat
    BY <1>1, <2>f, FromBounds, LogTypes DEF From, Grown
  <2>1. CASE k \in unlogged
    <3>1. CASE Len(bytes') >= Len(bytes) + 2 /\ bytes'[Len(bytes) + 2] = <<k, 2>>
      <4>1. Len(bytes) + 2 \in 1..Len(bytes') /\ Len(bytes) + 2 > f
        BY <2>0, <3>1
      <4>2. k \in TouchedAfter(f)'
        BY <3>1, <4>1, <2>0 DEF TouchedAfter
      <4> QED BY <1>2, <2>0, <2>f, <4>2
    <3>2. CASE Len(bytes') = Len(bytes) + 1 /\ Pending(k)'
      BY <1>2, <2>0, <2>f, <3>2
    <3> QED BY <1>2, <2>1, <3>1, <3>2 DEF Grown
  <2>2. CASE k \in TouchedAfter(f)
    <3>1. PICK i \in 1..Len(bytes) : i > f /\ bytes[i] \in {<<k, 1>>, <<k, 2>>}
      BY <2>2 DEF TouchedAfter
    <3>2. i \in 1..Len(bytes') /\ bytes'[i] = bytes[i]
      BY <2>0, <3>1 DEF Grown
    <3>3. k \in TouchedAfter(f)'
      BY <1>2, <2>0, <3>1, <3>2 DEF TouchedAfter
    <3> QED BY <1>2, <2>0, <2>f, <3>3
  <2>3. CASE Pending(k) /\ f <= Len(bytes)
    <3>1. Len(bytes') >= Len(bytes) + 1 /\ bytes'[Len(bytes) + 1] = <<k, 2>>
      BY <1>2, <2>3 DEF Grown
    <3>2. Len(bytes) + 1 \in 1..Len(bytes') /\ Len(bytes) + 1 > f
      BY <2>0, <2>3, <3>1
    <3>3. k \in TouchedAfter(f)'
      BY <3>1, <3>2, <2>0 DEF TouchedAfter
    <3> QED BY <1>2, <2>0, <2>f, <3>3
  <2> QED BY <1>1, <1>2, <2>f, <2>1, <2>2, <2>3 DEF SkipInStep, Behind
<1>3. ASSUME NEW p \in {mem', dsk'}
      PROVE  Lines \ unlogged' \subseteq Reported' \cup excused' \cup Behind(p)'
  <2>1. p \in {mem, dsk} /\ From(p)' = From(p)
    BY <1>1 DEF From
  <2> QED BY <1>2, <2>1 DEF Behind
<1> QED BY <1>3 DEF SkipInStep

\* A step that leaves the log alone.
LEMMA BehindKept ==
    ASSUME UNCHANGED logVars
    PROVE  \A p : Behind(p)' = Behind(p)
BY DEF logVars, Behind, From, TouchedAfter, Pending

LEMMA SkipMoves == ASSUME LogInv, SkipInStep, PassesOn PROVE SkipInStep'
<1>1. UNCHANGED logVars /\ dsk' = dsk /\ mem' \in {mem, dsk}
  BY DEF PassesOn, SendDevices, SendFails, ReportLost, AgentStop, Restored, Allowed, UpsertDevice,
     DeleteUser, Age, Purge, agentVars
<1>2. Reported \cup excused \subseteq Reported' \cup excused'
  <2>1. CASE UpsertDevice
    <3>1. \A k \in wire : conns'[k] > 0
      <4>1. \A k \in wire : k \in Lines /\ conns[k] \in 0..2
        BY DEF LogInv, DeviceTypeOK, ConnsCap
      <4> QED BY <2>1, <4>1 DEF UpsertDevice, ConnsCap
    <3>2. \A k \in Lines : conns[k] > 0 => conns'[k] > 0
      <4>1. \A k \in Lines : conns[k] \in 0..2
        BY DEF LogInv, DeviceTypeOK, ConnsCap
      <4> QED BY <2>1, <4>1 DEF UpsertDevice, ConnsCap
    <3>3. got' = got /\ excused' = excused /\ wire \subseteq Lines
      BY <2>1 DEF UpsertDevice, agentVars, LogInv, DeviceTypeOK
    <3> QED BY <3>1, <3>2, <3>3 DEF Reported
  <2>2. CASE SendDevices \/ SendFails \/ AgentStop
    BY <2>2 DEF SendDevices, SendFails, AgentStop, Reported, panelVars
  <2>3. CASE ReportLost \/ Allowed
    BY <2>3 DEF ReportLost, Allowed, Reported, agentVars
  <2>4. CASE DeleteUser \/ Age \/ Purge
    BY <2>4 DEF DeleteUser, Age, Purge, Reported, agentVars
  <2> QED BY <2>1, <2>2, <2>3, <2>4 DEF PassesOn
<1>3. ASSUME NEW p \in {mem', dsk'}
      PROVE  Lines \ unlogged' \subseteq Reported' \cup excused' \cup Behind(p)'
  <2>1. p \in {mem, dsk} /\ unlogged' = unlogged
    BY <1>1 DEF logVars
  <2> QED BY <1>1, <1>2, <2>1, BehindKept DEF SkipInStep
<1> QED BY <1>3 DEF SkipInStep

LEMMA SkipCut == ASSUME LogInv, SkipInStep, LogCut PROVE SkipInStep'
<1>1. /\ UNCHANGED <<unlogged, bytes, gen, mem, dsk>> /\ Reported' = Reported
      /\ excused' = excused \cup {k \in Lines : Pending(k)}
  BY DEF LogCut, agentVars, panelVars, Reported, Pending
<1>2. \A p : From(p)' = From(p) /\ TouchedAfter(From(p))' = TouchedAfter(From(p))
  BY <1>1 DEF From, TouchedAfter
<1> QED BY <1>1, <1>2 DEF SkipInStep, Behind

\* Rotation loses only what was unread, which is excused.
LEMMA SkipRotate == ASSUME LogInv, SkipInStep, NEW n \in Nat, Rotate(n) PROVE SkipInStep'
<1>1. /\ unlogged' = unlogged /\ Reported' = Reported /\ excused' = excused \cup Unread
  BY DEF Rotate, agentVars, panelVars, Reported
<1>2. Behind(mem) \subseteq Unread
  BY DEF Behind, Unread, From, Pending
<1>3. Lines \ unlogged' \subseteq Reported' \cup excused'
  BY <1>1, <1>2 DEF SkipInStep
<1> QED BY <1>3 DEF SkipInStep

\* The first look excuses what it passes over.
LEMMA SkipSeed == ASSUME LogInv, SkipInStep, Seed PROVE SkipInStep'
<1>1. /\ unlogged' = unlogged /\ excused' = excused \cup TouchedUpTo(Len(bytes))
      /\ Reported' = Reported
  BY DEF Seed, logVars, panelVars, Reported
<1>2. Behind(mem) \subseteq TouchedUpTo(Len(bytes))
  <2>1. TouchedAfter(From(mem)) \subseteq TouchedUpTo(Len(bytes))
    BY LogTypes DEF TouchedAfter, TouchedUpTo
  <2>2. ASSUME NEW k \in Lines, Pending(k) PROVE k \in TouchedUpTo(Len(bytes))
    <3>1. 0 < Len(bytes)
      BY <2>2 DEF LogInv, RestOK
    <3> QED BY <2>2, <3>1, PendingTouched
  <2> QED BY <2>1, <2>2 DEF Behind
<1>3. Lines \ unlogged' \subseteq Reported' \cup excused'
  BY <1>1, <1>2 DEF SkipInStep
<1> QED BY <1>3 DEF SkipInStep

\* A log shorter than the position, or with another inode, is read from its start.
LEMMA SkipStat == ASSUME LogInv, SkipInStep, Stat PROVE SkipInStep'
<1>1. /\ UNCHANGED logVars /\ Reported' = Reported /\ dsk' = dsk
      /\ mem' = [mem EXCEPT !.off = StartAt, !.ino = ino, !.gen = gen]
      /\ excused \subseteq excused'
      /\ mem.gen # gen /\ ino = mem.ino => TouchedUpTo(StartAt) \subseteq excused'
  BY DEF Stat, panelVars, Reported
<1>2. ASSUME NEW p, p = mem' PROVE Behind(mem) \subseteq Behind(p) \cup excused'
  <2>0. /\ StartAt \in Nat /\ StartAt \in {0, mem.off} /\ StartAt <= Len(bytes)
        /\ Len(bytes) \in Nat /\ mem.off \in Nat
    BY ReadBounds, LogTypes
  <2>1. From(p) = StartAt
    <3>1. p.gen = gen /\ p.off = StartAt
      BY <1>1, <1>2, LogTypes DEF Position
    <3> QED BY <3>1 DEF From
  <2>2. CASE StartAt <= From(mem)
    <3>1. TouchedAfter(From(mem)) \subseteq TouchedAfter(StartAt)
      BY <2>0, <2>2, FromBounds DEF TouchedAfter
    <3> QED BY <2>0, <2>1, <3>1 DEF Behind
  <2>3. CASE ~(StartAt <= From(mem))
    <3>1. mem.gen # gen /\ StartAt = mem.off /\ StartAt # 0 /\ From(mem) = 0
      BY <2>0, <2>3 DEF From
    <3>2. ino = mem.ino
      BY <3>1 DEF StartAt
    <3>3. TouchedAfter(0) \subseteq TouchedAfter(StartAt) \cup TouchedUpTo(StartAt)
      BY <2>0 DEF TouchedAfter, TouchedUpTo
    <3> QED BY <1>1, <2>0, <2>1, <3>1, <3>2, <3>3 DEF Behind
  <2> QED BY <2>2, <2>3
<1>3. ASSUME NEW p \in {mem', dsk'}
      PROVE  Lines \ unlogged' \subseteq Reported' \cup excused' \cup Behind(p)'
  <2>1. unlogged' = unlogged /\ Behind(p)' = Behind(p)
    BY <1>1, BehindKept DEF logVars
  <2>2. CASE p = mem'
    BY <1>1, <1>2, <2>1, <2>2 DEF SkipInStep
  <2>3. CASE p = dsk'
    BY <1>1, <2>1, <2>3 DEF SkipInStep
  <2> QED BY <2>2, <2>3
<1> QED BY <1>3 DEF SkipInStep

\* A line behind the position is reported or excused, or stays behind the new one.
LEMMA SkipRead == ASSUME LogInv, SkipInStep, ReadLog PROVE SkipInStep'
<1> DEFINE cs == recounts \cup (IF statGen # gen THEN {"swap"} ELSE {})
                        \cup (IF ReadTo = Len(bytes) + 1 THEN {"partial"} ELSE {})
<1>1. /\ UNCHANGED logVars /\ UNCHANGED panelVars /\ got' = Matches(mem.off) /\ tick = "open"
      /\ SaveOffset(ReadPlace, cs)
      /\ excused \subseteq excused' /\ TouchedAfter(mem.off) \subseteq got' \cup excused'
      /\ statGen # gen /\ ino = mem.ino => TouchedUpTo(mem.off) \subseteq excused'
  BY DEF ReadLog, ReadPlace
<1>2. mem' = ReadPlace /\ dsk' \in {ReadPlace, dsk}
  <2>1. cs \in SUBSET RecountKinds
    BY DEF RecountKinds, LogInv, DeviceTypeOK
  <2> HIDE DEF cs
  <2> QED BY <1>1, <2>1, Saved, NewPlaces
<1> HIDE DEF cs
<1>3. Reported \subseteq Reported' /\ got' \subseteq Reported'
  <2>1. got = {}
    BY <1>1 DEF LogInv, DeviceTypeOK
  <2> QED BY <1>1, <2>1 DEF Reported, panelVars
<1>4. statGen = mem.gen
  BY <1>1 DEF LogInv
<1>5. /\ mem.off \in Nat /\ Len(bytes) \in Nat /\ ReadTo \in Nat
      /\ mem.off >= Len(bytes) => ReadTo = mem.off
  BY ReadBounds, LogTypes
<1>6. Behind(mem) \subseteq Behind(ReadPlace) \cup Reported' \cup excused'
  <2>1. ASSUME NEW k \in Lines, Pending(k), mem.off < Len(bytes) PROVE k \in Reported' \cup excused'
    <3>1. k \in TouchedAfter(mem.off)
      BY <1>5, <2>1, PendingTouched
    <3> QED BY <1>1, <1>3, <3>1
  <2>2. CASE mem.gen = gen
    <3>1. From(mem) = mem.off /\ From(ReadPlace) = ReadTo
      BY <2>2 DEF From, ReadPlace
    <3>2. ASSUME NEW k \in Lines, Pending(k), mem.off <= Len(bytes)
          PROVE  k \in Behind(ReadPlace) \cup Reported' \cup excused'
      <4>1. CASE mem.off < Len(bytes)
        BY <2>1, <3>2, <4>1
      <4>2. CASE mem.off = Len(bytes)
        BY <1>5, <3>1, <3>2, <4>2 DEF Behind
      <4> QED BY <1>5, <3>2, <4>1, <4>2
    <3> QED BY <1>1, <1>3, <3>1, <3>2 DEF Behind
  <2>3. CASE mem.gen # gen /\ ino = mem.ino /\ mem.off <= Len(bytes)
    <3>1. From(mem) = 0
      BY <2>3 DEF From
    <3>2. TouchedAfter(0) \subseteq TouchedAfter(mem.off) \cup TouchedUpTo(mem.off)
      BY <1>5 DEF TouchedAfter, TouchedUpTo
    <3>3. ASSUME NEW k \in Lines, Pending(k) PROVE k \in TouchedAfter(0)
      <4>1. 0 < Len(bytes)
        BY <3>3 DEF LogInv, RestOK
      <4> QED BY <3>3, <4>1, PendingTouched
    <3> QED BY <1>1, <1>3, <1>4, <2>3, <3>1, <3>2, <3>3 DEF Behind
  <2>4. CASE mem.gen # gen /\ ~(ino = mem.ino /\ mem.off <= Len(bytes))
    <3>1. From(mem) = 0 /\ From(ReadPlace) = 0
      BY <2>4 DEF From, ReadPlace
    <3> QED BY <3>1 DEF Behind
  <2> QED BY <2>2, <2>3, <2>4
<1>7. ASSUME NEW p \in {mem', dsk'}
      PROVE  Lines \ unlogged' \subseteq Reported' \cup excused' \cup Behind(p)'
  <2>1. unlogged' = unlogged /\ Behind(p)' = Behind(p)
    BY <1>1, BehindKept DEF logVars
  <2>2. CASE p = ReadPlace
    BY <1>1, <1>3, <1>6, <2>1, <2>2 DEF SkipInStep
  <2>3. CASE p = dsk
    BY <1>1, <1>3, <2>1, <2>3 DEF SkipInStep
  <2> QED BY <1>2, <2>2, <2>3
<1> QED BY <1>7 DEF SkipInStep

LEMMA SkipInit == DeviceInit => SkipInStep
<1> SUFFICES ASSUME DeviceInit, NEW k \in Lines \ unlogged PROVE k \in Behind(NoPosition)
  BY DEF DeviceInit, SkipInStep
<1>1. PICK j \in Lines : unlogged = Lines \ {j} /\ unlogged # Lines
  BY DEF DeviceInit
<1>2. bytes = Text(k)
  <2>1. \A i \in Lines : i \notin unlogged <=> i = k
    BY <1>1
  <2>2. k = CHOOSE i \in Lines : i \notin unlogged
    BY <2>1
  <2> QED BY <1>1, <2>2 DEF DeviceInit
<1>3. 1 \in 1..Len(bytes) /\ bytes[1] = <<k, 1>>
  BY <1>2, Parts
<1>4. From(NoPosition) = 0
  BY DEF From, NoPosition
<1>5. \E i \in 1..Len(bytes) : i > 0 /\ bytes[i] \in {<<k, 1>>, <<k, 2>>}
  BY <1>3
<1> QED BY <1>4, <1>5 DEF Behind, TouchedAfter

LEMMA SkipNext == LogInv /\ SkipInStep /\ [DeviceNext]_deviceVars => SkipInStep'
<1> SUFFICES ASSUME LogInv, SkipInStep, [DeviceNext]_deviceVars PROVE SkipInStep'
  OBVIOUS
<1>1. CASE Writes \/ LogRest
  BY <1>1, LogGrows, PartGrows, RestGrows, SkipGrown DEF Writes
<1>2. CASE LogCut
  BY <1>2, SkipCut
<1>3. CASE Rotate(ino) \/ Rotate(ino + 1)
  BY <1>3, SkipRotate, LogTypes
<1>4. CASE Seed
  BY <1>4, SkipSeed
<1>5. CASE Stat
  BY <1>5, SkipStat
<1>6. CASE ReadLog
  BY <1>6, SkipRead
<1>7. CASE PassesOn
  BY <1>7, SkipMoves
<1>8. CASE UNCHANGED deviceVars
  <2>1. UNCHANGED logVars /\ mem' = mem /\ dsk' = dsk /\ Reported' = Reported /\ excused' = excused
    BY <1>8 DEF deviceVars, logVars, Reported
  <2>2. unlogged' = unlogged
    BY <2>1 DEF logVars
  <2> QED BY <2>1, <2>2, BehindKept DEF SkipInStep
<1> QED BY <1>1, <1>2, <1>3, <1>4, <1>5, <1>6, <1>7, <1>8 DEF DeviceNext, Tick, Writes, PassesOn

\* Every line of the access log that was there to be read is counted in a device row, on
\* its way there, ahead of the watcher (devices.go collect), or excused by a cause that
\* NoneSkipped names, over rotations, truncations, restarts and half-written lines.
THEOREM LogNoneSkipped == DeviceSpec => []NoneSkipped
<1>1. LogInv /\ SkipInStep => NoneSkipped
  <2> SUFFICES ASSUME SkipInStep PROVE NoneSkipped
    OBVIOUS
  <2>1. Behind(mem) \subseteq Unread
    BY DEF Behind, Unread, From, Pending
  <2> QED BY <2>1 DEF SkipInStep, Reported, NoneSkipped
<1>2. DeviceInit => LogInv /\ SkipInStep
  BY LogInvInit, SkipInit
<1>3. LogInv /\ SkipInStep /\ [DeviceNext]_deviceVars => (LogInv /\ SkipInStep)'
  BY LogInvNext, SkipNext
<1> QED BY <1>1, <1>2, <1>3, PTL DEF DeviceSpec

-----------------------------------------------------------------------------
(* Why no line counts twice. *)

\* What is appended was not reported before.
LEMMA OnceGrown == ASSUME LogInv, OnceInLog, Grown PROVE OnceInLog'
<1>1. /\ mem' = mem /\ dsk' = dsk /\ gen' = gen /\ ino' = ino /\ Reported' = Reported /\ got' = got
      /\ wire' = wire /\ conns' = conns
  BY DEF Grown, agentVars, panelVars, Reported
<1>2. InLog(mem)' /\ InLog(dsk)'
  BY <1>1, LogTypes DEF OnceInLog, InLog, Grown
<1>3. ASSUME NEW k \in Reported', NEW i \in 1..Len(bytes'), Starts(k, i)'
      PROVE  Past(mem, i)' /\ Past(dsk, i)'
  <2>1. k \in Reported /\ k \in Lines /\ k \notin unlogged
    BY <1>1, <1>3 DEF OnceInLog, Reported, LogInv, DeviceTypeOK
  <2>2. i \in 1..Len(bytes)
    BY <1>3, <2>1, LogTypes DEF Starts, Grown
  <2>3. Starts(k, i)
    BY <1>3, <2>2 DEF Starts, Grown
  <2> QED BY <1>1, <2>1, <2>2, <2>3 DEF OnceInLog, Past
<1>4. Reported' \cap unlogged' = {}
  BY <1>1 DEF OnceInLog, Grown
<1> QED BY <1>1, <1>2, <1>3, <1>4 DEF OnceInLog

\* A step that leaves the log alone.
LEMMA PastKept ==
    ASSUME UNCHANGED logVars
    PROVE  /\ \A p : InLog(p)' = InLog(p)
           /\ \A p, i : Past(p, i)' = Past(p, i)
           /\ \A k, i : Starts(k, i)' = Starts(k, i)
           /\ bytes' = bytes /\ unlogged' = unlogged
BY DEF logVars, InLog, Past, Starts

LEMMA OnceMoves == ASSUME LogInv, OnceInLog, PassesOn PROVE OnceInLog'
<1>1. UNCHANGED logVars /\ dsk' = dsk /\ mem' \in {mem, dsk}
  BY DEF PassesOn, SendDevices, SendFails, ReportLost, AgentStop, Restored, Allowed, UpsertDevice,
     DeleteUser, Age, Purge, agentVars
<1>2. /\ Reported' \subseteq Reported
      /\ got' \cap wire' = {}
      /\ \A k \in Lines : conns'[k] <= 1 /\ (conns'[k] > 0 => k \notin got' \cup wire')
  <2>0. \A k \in Lines : conns[k] \in 0..2
    BY DEF LogInv, DeviceTypeOK, ConnsCap
  <2>1. CASE UpsertDevice
    <3>1. got' = got /\ wire' = {}
      BY <2>1 DEF UpsertDevice, agentVars
    <3>2. ASSUME NEW k \in Lines
          PROVE  conns'[k] <= 1 /\ (conns'[k] > 0 => conns[k] > 0 \/ k \in wire)
      BY <2>0, <2>1, <3>2 DEF UpsertDevice, ConnsCap, OnceInLog
    <3> QED BY <3>1, <3>2 DEF OnceInLog, Reported
  <2>2. CASE SendDevices \/ SendFails \/ AgentStop
    BY <2>2 DEF SendDevices, SendFails, AgentStop, Reported, panelVars, OnceInLog
  <2>3. CASE ReportLost \/ Allowed
    BY <2>3 DEF ReportLost, Allowed, Reported, agentVars, OnceInLog
  <2>4. CASE DeleteUser \/ Age \/ Purge
    BY <2>4 DEF DeleteUser, Age, Purge, Reported, agentVars, OnceInLog
  <2> QED BY <2>1, <2>2, <2>3, <2>4 DEF PassesOn
<1>3. ASSUME NEW p \in {mem, dsk} PROVE InLog(p)'
  BY <1>1, PastKept DEF OnceInLog
<1>4. InLog(mem)' /\ InLog(dsk)' /\ mem'.seeded = dsk'.seeded
  BY <1>1, <1>3 DEF OnceInLog, InLog
<1>5. ASSUME NEW k \in Reported', NEW i \in 1..Len(bytes'), Starts(k, i)'
      PROVE  Past(mem, i)' /\ Past(dsk, i)'
  <2>1. \A p \in {mem, dsk} : Past(p, i)'
    BY <1>1, <1>2, <1>5, PastKept DEF OnceInLog
  <2> QED BY <1>1, <2>1 DEF Past
<1>6. Reported' \cap unlogged' = {}
  BY <1>1, <1>2, PastKept DEF OnceInLog
<1> QED BY <1>2, <1>4, <1>5, <1>6 DEF OnceInLog

LEMMA OnceCut == ASSUME LogInv, OnceInLog, LogCut PROVE OnceInLog'
<1>1. UNCHANGED <<unlogged, bytes, gen, ino, mem, dsk, got, wire, conns>> /\ Reported' = Reported
  BY DEF LogCut, agentVars, panelVars, Reported
<1>2. InLog(mem)' /\ InLog(dsk)'
  BY <1>1 DEF OnceInLog, InLog
<1>3. \A k \in Reported' : \A i \in 1..Len(bytes') : Starts(k, i)' => Past(mem, i)' /\ Past(dsk, i)'
  BY <1>1 DEF OnceInLog, Starts, Past
<1> QED BY <1>1, <1>2, <1>3 DEF OnceInLog

\* No line of an earlier log is in this one.
LEMMA OnceRotate == ASSUME LogInv, OnceInLog, NEW n \in Nat, Rotate(n) PROVE OnceInLog'
<1>1. /\ UNCHANGED <<unlogged, mem, dsk, got, wire, conns>> /\ Reported' = Reported
      /\ bytes' = <<>> /\ gen' = gen + 1
  BY DEF Rotate, agentVars, panelVars, Reported
<1>2. InLog(mem)' /\ InLog(dsk)'
  BY <1>1, LogTypes DEF LogInv, PlaceOK, InLog
<1>3. \A i \in 1..Len(bytes') : FALSE
  BY <1>1
<1> QED BY <1>1, <1>2, <1>3 DEF OnceInLog

\* Nothing was reported before the first look.
LEMMA OnceSeed == ASSUME LogInv, OnceInLog, Seed, recounts' = {} PROVE OnceInLog'
<1>1. /\ UNCHANGED logVars /\ UNCHANGED <<got, wire, conns>> /\ Reported' = Reported
      /\ SaveOffset(SeedPlace, recounts) /\ ~mem.seeded
  BY DEF Seed, SeedPlace, panelVars, Reported
<1>2. mem' = SeedPlace /\ dsk' = SeedPlace
  BY <1>1, Saved, NewPlaces DEF LogInv, DeviceTypeOK
<1>3. /\ SeedPlace.off = Len(bytes) /\ SeedPlace.gen = gen /\ SeedPlace.ino = ino
      /\ SeedPlace.seeded
  BY DEF SeedPlace
<1>4. InLog(mem)' /\ InLog(dsk)'
  BY <1>1, <1>2, <1>3, LogTypes DEF InLog, logVars
<1>5. ASSUME NEW k \in Reported', NEW i \in 1..Len(bytes'), Starts(k, i)' PROVE FALSE
  BY <1>1, <1>5, PastKept DEF OnceInLog, Past
<1> QED BY <1>1, <1>2, <1>4, <1>5, PastKept DEF OnceInLog

\* A position inside this log is kept, so nothing before it is read again.
LEMMA OnceStat == ASSUME LogInv, OnceInLog, Stat PROVE OnceInLog'
<1>1. /\ UNCHANGED logVars /\ UNCHANGED <<got, wire, conns, dsk>> /\ Reported' = Reported
      /\ mem' = [mem EXCEPT !.off = StartAt, !.ino = ino, !.gen = gen] /\ mem.seeded
  BY DEF Stat, panelVars, Reported
<1>2. /\ mem'.off = StartAt /\ mem'.ino = ino /\ mem'.gen = gen /\ mem'.seeded
  BY <1>1, LogTypes DEF Position
<1>3. InLog(mem)' /\ InLog(dsk)'
  BY <1>1, <1>2, ReadBounds, PastKept DEF OnceInLog, InLog, logVars
<1>4. ASSUME NEW k \in Reported', NEW i \in 1..Len(bytes'), Starts(k, i)'
      PROVE  Past(mem, i)' /\ Past(dsk, i)'
  <2>1. Past(mem, i) /\ Past(dsk, i)
    BY <1>1, <1>4, PastKept DEF OnceInLog
  <2>2. mem.gen = gen /\ mem.ino = ino /\ mem.off <= Len(bytes)
    BY <1>1, <2>1 DEF OnceInLog, InLog, Past
  <2>3. StartAt = mem.off
    BY <2>2, LogTypes DEF StartAt
  <2> QED BY <1>1, <1>2, <2>1, <2>3 DEF Past, logVars
<1> QED BY <1>1, <1>2, <1>3, <1>4, PastKept DEF OnceInLog

\* A read reports what starts after the position, and moves it, in memory and on disk, to
\* the end of the log.
LEMMA OnceRead == ASSUME LogInv, OnceInLog, ReadLog, recounts' = {} PROVE OnceInLog'
<1> DEFINE cs == recounts \cup (IF statGen # gen THEN {"swap"} ELSE {})
                        \cup (IF ReadTo = Len(bytes) + 1 THEN {"partial"} ELSE {})
<1>1. /\ UNCHANGED logVars /\ UNCHANGED <<wire, conns>> /\ got' = Matches(mem.off) /\ tick = "open"
      /\ SaveOffset(ReadPlace, cs)
  BY DEF ReadLog, ReadPlace, panelVars
<1>2. cs \in SUBSET RecountKinds /\ (cs = {} => statGen = gen /\ ReadTo # Len(bytes) + 1)
  BY DEF RecountKinds, LogInv, DeviceTypeOK
<1> HIDE DEF cs
<1>3. mem' = ReadPlace /\ dsk' = ReadPlace /\ statGen = gen /\ ReadTo # Len(bytes) + 1
  BY <1>1, <1>2, Saved, NewPlaces
<1>4. mem.seeded /\ mem.gen = gen /\ got = {}
  BY <1>1, <1>3 DEF LogInv, DeviceTypeOK
<1>5. mem.ino = ino /\ mem.off <= Len(bytes) /\ ReadTo = Len(bytes)
  BY <1>3, <1>4, ReadBounds DEF OnceInLog, InLog
<1>6. /\ ReadPlace.off = Len(bytes) /\ ReadPlace.gen = gen /\ ReadPlace.ino = ino
      /\ ReadPlace.seeded
  BY <1>4, <1>5 DEF ReadPlace
<1>7. ASSUME NEW k \in got' PROVE k \in Lines /\ k \notin Reported /\ k \notin unlogged
  <2>1. k \in Lines /\ \E i \in 1..(Len(bytes) - 1) : i > mem.off /\ bytes[i] = <<k, 1>>
    BY <1>1, <1>7 DEF Matches
  <2>2. PICK i \in 1..Len(bytes) : i > mem.off /\ bytes[i] = <<k, 1>>
    BY <2>1, LogTypes
  <2>3. Starts(k, i)
    BY <2>2 DEF Starts
  <2>4. ~Past(mem, i)
    BY <2>2, LogTypes DEF Past
  <2> QED BY <2>1, <2>3, <2>4 DEF OnceInLog, LogInv
<1>9. InLog(mem)' /\ InLog(dsk)'
  BY <1>1, <1>3, <1>6, LogTypes DEF InLog, logVars
<1>10. ASSUME NEW k \in Reported', NEW i \in 1..Len(bytes'), Starts(k, i)'
       PROVE  Past(mem, i)' /\ Past(dsk, i)'
  BY <1>1, <1>3, <1>6, <1>10, LogTypes DEF Past, logVars
<1>11. Reported' = Reported \cup got' /\ got' \cap wire' = {}
  BY <1>1, <1>4, <1>7 DEF Reported
<1>12. \A k \in Lines : conns'[k] <= 1 /\ (conns'[k] > 0 => k \notin got' \cup wire')
  BY <1>1, <1>7 DEF OnceInLog, Reported
<1>13. Reported' \cap unlogged' = {}
  BY <1>1, <1>7, <1>11, PastKept DEF OnceInLog
<1> QED BY <1>3, <1>9, <1>10, <1>11, <1>12, <1>13 DEF OnceInLog

\* A cause stays on record.
LEMMA CausesStay == ASSUME [DeviceNext]_deviceVars PROVE recounts \subseteq recounts'
BY DEF DeviceNext, Log, LogPart, LogRest, LogCut, Rotate, Tick, Seed, Stat, ReadLog, SaveOffset,
   SendDevices, SendFails, ReportLost, AgentStop, Allowed, UpsertDevice, DeleteUser, Age, Purge,
   deviceVars, agentVars, panelVars, logVars

LEMMA OnceNext == LogInv /\ OnceInStep /\ [DeviceNext]_deviceVars => OnceInStep'
<1> SUFFICES ASSUME LogInv, OnceInStep, [DeviceNext]_deviceVars, recounts' = {} PROVE OnceInLog'
  BY DEF OnceInStep
<1>0. OnceInLog
  BY CausesStay DEF OnceInStep
<1>1. CASE Writes \/ LogRest
  BY <1>0, <1>1, LogGrows, PartGrows, RestGrows, OnceGrown DEF Writes
<1>2. CASE LogCut
  BY <1>0, <1>2, OnceCut
<1>3. CASE Rotate(ino) \/ Rotate(ino + 1)
  BY <1>0, <1>3, OnceRotate, LogTypes
<1>4. CASE Seed
  BY <1>0, <1>4, OnceSeed
<1>5. CASE Stat
  BY <1>0, <1>5, OnceStat
<1>6. CASE ReadLog
  BY <1>0, <1>6, OnceRead
<1>7. CASE PassesOn
  BY <1>0, <1>7, OnceMoves
<1>8. CASE UNCHANGED deviceVars
  <2>1. UNCHANGED logVars /\ UNCHANGED <<mem, dsk, got, wire, conns>> /\ Reported' = Reported
    BY <1>8 DEF deviceVars, logVars, Reported
  <2>2. InLog(mem)' /\ InLog(dsk)'
    BY <1>0, <2>1 DEF OnceInLog, InLog, logVars
  <2>3. \A k \in Reported' : \A i \in 1..Len(bytes') :
            Starts(k, i)' => Past(mem, i)' /\ Past(dsk, i)'
    BY <1>0, <2>1 DEF OnceInLog, Starts, Past, logVars
  <2> QED BY <1>0, <2>1, <2>2, <2>3, PastKept DEF OnceInLog
<1> QED BY <1>1, <1>2, <1>3, <1>4, <1>5, <1>6, <1>7, <1>8 DEF DeviceNext, Tick, Writes, PassesOn

LEMMA OnceInit == DeviceInit => OnceInStep
<1> SUFFICES ASSUME DeviceInit PROVE OnceInLog
  BY DEF OnceInStep
<1>1. Reported = {} /\ \A k \in Lines : conns[k] = 0
  BY DEF DeviceInit, Reported
<1>2. InLog(NoPosition)
  BY DEF InLog, NoPosition
<1> QED BY <1>1, <1>2 DEF DeviceInit, OnceInLog

\* No connection is counted twice in a device row (devices.go collect and saveOffset,
\* traffic.go ingestDevices), over any number of rotations, truncations and restarts of the
\* agent, unless a line was read half written, the log was replaced while it was read, or
\* its offset could not be saved.
THEOREM LogCountedOnce == DeviceSpec => []CountedOnce
<1>1. OnceInStep => CountedOnce
  BY DEF OnceInStep, OnceInLog, CountedOnce
<1>2. DeviceInit => LogInv /\ OnceInStep
  BY LogInvInit, OnceInit
<1>3. LogInv /\ OnceInStep /\ [DeviceNext]_deviceVars => (LogInv /\ OnceInStep)'
  BY LogInvNext, OnceNext
<1> QED BY <1>1, <1>2, <1>3, PTL DEF DeviceSpec
=============================================================================
