------------------------------ MODULE Devices ------------------------------
(***************************************************************************)
(* Device tracking: the agent's access-log watcher (internal/agent/        *)
(* devices.go), its reports over a session (agent.go) and the panel's      *)
(* device rows (internal/panel/traffic.go ingestDevices, deviceCleanupLoop,*)
(* store.go UpsertDevice, PurgeDevices), for one user on one node.         *)
(*                                                                         *)
(* A line of the log is two characters and a newline: enough for a reader  *)
(* to meet it whole, cut in the middle, or complete but for its newline.   *)
(* Which device a line names is abstracted away: what counts is how often  *)
(* each line was added to a row's conns.                                   *)
(***************************************************************************)
EXTENDS Integers, Sequences

CONSTANTS
    Lines,         \* access-log lines, one per accepted connection
    MaxGens,       \* bound: rotations and truncations of the log
    DeviceFaults   \* which DeviceFaultKinds the run lets happen

DeviceFaultKinds == {"partial", "saveError", "agentStop", "sendError", "deleteUser", "age"}

ASSUME DeviceBounds == MaxGens \in Nat
ASSUME DeviceFaultsKnown == DeviceFaults \subseteq DeviceFaultKinds

VARIABLES
    (* the log *)
    unlogged,   \* lines not written yet
    bytes,      \* the file's content
    ino,        \* its inode
    gen,        \* how often it was rotated or truncated
    rest,       \* what is still to be written of a line written in part
    (* the agent *)
    mem,        \* accessWatcher: offset, inode, seeded
    dsk,        \* access-offset.json
    tick,       \* where the stats tick is in collect and send
    got,        \* the lines behind the devices to be sent
    (* the panel *)
    wire,       \* the lines behind the report on its way or being ingested
    ing,        \* ingestDevices is between UsersForNode and UpsertDevice
    user,       \* the user exists and is assigned to the node
    rows,       \* the user's device rows: none, recently seen, or old
    conns,      \* how often a line was added (saturates at ConnsCap)
    (* history, read by no action of the system *)
    statGen,    \* the log's generation when collect looked at its size
    excused,    \* lines that may go unreported, for a reason recorded here
    recounts    \* what may make a line count twice

logVars   == <<unlogged, bytes, ino, gen, rest>>
agentVars == <<mem, dsk, tick, got, statGen>>
panelVars == <<wire, ing, user, rows, conns>>
deviceVars == <<unlogged, bytes, ino, gen, rest, mem, dsk, tick, got, wire, ing, user,
                rows, conns, statGen, excused, recounts>>

ConnsCap   == 2
RecountKinds == {"partial", "swap", "saveError"}

NL == <<"nl">>
Text(k) == <<<<k, 1>>, <<k, 2>>, NL>>

\* A read position; gen is the generation of the log it speaks of (history).
Position == [off: Nat, ino: Nat, seeded: BOOLEAN, gen: Nat]
NoPosition == [off |-> 0, ino |-> 0, seeded |-> FALSE, gen |-> 0]

DeviceInit ==
    /\ unlogged \in {Lines} \cup {Lines \ {k} : k \in Lines}
    /\ bytes = IF unlogged = Lines THEN <<>> ELSE Text(CHOOSE k \in Lines : k \notin unlogged)
    /\ ino = 1
    /\ gen = 0
    /\ rest = <<>>
    /\ mem = NoPosition
    /\ dsk = NoPosition
    /\ tick = "idle"
    /\ got = {}
    /\ wire = {}
    /\ ing = FALSE
    /\ user = TRUE
    /\ rows = "none"
    /\ conns = [k \in Lines |-> 0]
    /\ statGen = 0
    /\ excused = {}
    /\ recounts = {}

\* Lines of which some character lies behind position p of the file.
TouchedAfter(p) == {k \in Lines : \E i \in 1..Len(bytes) : i > p /\ bytes[i] \in {<<k, 1>>, <<k, 2>>}}
TouchedUpTo(p)  == {k \in Lines : \E i \in 1..Len(bytes) : i <= p /\ bytes[i] \in {<<k, 1>>, <<k, 2>>}}

\* Lines a scan from position p reports: whole, from one newline (or p) to the
\* next (or the end).  A cut or run-together line does not match accessRe, or
\* names nobody the panel knows.
Matches(p) ==
    {k \in Lines : \E i \in 1..(Len(bytes) - 1) :
        /\ i > p
        /\ bytes[i] = <<k, 1>>
        /\ bytes[i + 1] = <<k, 2>>
        /\ i = p + 1 \/ bytes[i - 1] = NL
        /\ i + 1 = Len(bytes) \/ bytes[i + 2] = NL}

-----------------------------------------------------------------------------
(* Xray and whatever rotates its log. *)

Log(k) ==
    /\ rest = <<>>
    /\ k \in unlogged
    /\ unlogged' = unlogged \ {k}
    /\ bytes' = bytes \o Text(k)
    /\ UNCHANGED <<ino, gen, rest, agentVars, panelVars, excused, recounts>>

\* Only part of the line is there yet (the write is under way, the disk full).
LogPart(k, n) ==
    /\ "partial" \in DeviceFaults
    /\ rest = <<>>
    /\ k \in unlogged
    /\ unlogged' = unlogged \ {k}
    /\ bytes' = bytes \o SubSeq(Text(k), 1, n)
    /\ rest' = SubSeq(Text(k), n + 1, 3)
    /\ UNCHANGED <<ino, gen, agentVars, panelVars, excused, recounts>>

LogRest ==
    /\ rest # <<>>
    /\ bytes' = bytes \o rest
    /\ rest' = <<>>
    /\ UNCHANGED <<unlogged, ino, gen, agentVars, panelVars, excused, recounts>>

\* Xray is killed before it has written the rest.
LogCut ==
    /\ rest # <<>>
    /\ rest' = <<>>
    /\ excused' = excused \cup {k \in Lines : Len(rest) = 2 /\ rest[1] = <<k, 2>>}
    /\ UNCHANGED <<unlogged, bytes, ino, gen, agentVars, panelVars, recounts>>

\* Lines the agent has not read yet, as far as its position goes.
Unread == TouchedAfter(IF mem.gen = gen THEN mem.off ELSE 0)
          \cup {k \in Lines : Len(rest) = 2 /\ rest[1] = <<k, 2>>}

\* A new file is moved into place, or the file is truncated; unread lines go.
Rotate(newIno) ==
    /\ gen < MaxGens
    /\ gen' = gen + 1
    /\ ino' = newIno
    /\ bytes' = <<>>
    /\ rest' = <<>>
    /\ excused' = excused \cup Unread
    /\ UNCHANGED <<unlogged, agentVars, panelVars, recounts>>

-----------------------------------------------------------------------------
(* The agent's tick: collect, then send. *)

\* saveOffset; errors are ignored.  Bound: one failed save per behaviour.
SaveOffset(p, cs) ==
    /\ mem' = p
    /\ \/ dsk' = p /\ recounts' = cs
       \/ "saveError" \in DeviceFaults \ recounts /\ dsk' = dsk /\ recounts' = cs \cup {"saveError"}

\* No recorded position: start at the end of what is there.
Seed ==
    /\ tick = "idle"
    /\ ~mem.seeded
    /\ SaveOffset([off |-> Len(bytes), ino |-> ino, seeded |-> TRUE, gen |-> gen], recounts)
    /\ excused' = excused \cup TouchedUpTo(Len(bytes))
    /\ UNCHANGED <<logVars, tick, got, statGen, panelVars>>

\* Bug: only a shrunken file is noticed.
BugStartAt == IF Len(bytes) < mem.off THEN 0 ELSE mem.off

\* Where to read from: another inode or a shorter file is read from its start.
StartAt == IF ino # mem.ino \/ Len(bytes) < mem.off THEN 0 ELSE mem.off

\* Stat: adjust the position in memory; nothing new ends collect, unsaved.
Stat ==
    /\ tick = "idle"
    /\ mem.seeded
    /\ mem' = [mem EXCEPT !.off = StartAt, !.ino = ino, !.gen = gen]
    /\ tick' = IF StartAt = Len(bytes) THEN "idle" ELSE "open"
    /\ statGen' = gen
    /\ excused' = IF mem.gen # gen /\ ino = mem.ino   \* truncated, and grown since
                  THEN excused \cup TouchedUpTo(StartAt) ELSE excused
    /\ UNCHANGED <<logVars, dsk, got, panelVars, recounts>>

\* Each line scanned counts its length and a newline, also the last one.
ReadTo == IF Len(bytes) <= mem.off THEN mem.off
          ELSE IF bytes[Len(bytes)] = NL THEN Len(bytes) ELSE Len(bytes) + 1

\* Open, Seek, scan to the end and save the position.  The file may no longer
\* be the one Stat saw.
ReadLog ==
    /\ tick = "open"
    /\ got' = Matches(mem.off)
    /\ SaveOffset([off |-> ReadTo, ino |-> mem.ino, seeded |-> TRUE,
                   gen |-> IF ino = mem.ino /\ mem.off <= Len(bytes) THEN gen ELSE mem.gen],
                  recounts \cup (IF statGen # gen THEN {"swap"} ELSE {})
                         \cup (IF ReadTo = Len(bytes) + 1 THEN {"partial"} ELSE {}))
    /\ tick' = IF got' = {} THEN "idle" ELSE "send"
    /\ excused' = excused \cup (TouchedAfter(mem.off) \ got')
                  \cup (IF statGen # gen /\ ino = mem.ino THEN TouchedUpTo(mem.off) ELSE {})
    /\ UNCHANGED <<logVars, statGen, panelVars>>

\* Bug: the batch sent is kept.
BugSend ==
    /\ tick = "send"
    /\ wire = {}
    /\ wire' = got
    /\ tick' = "idle"
    /\ UNCHANGED <<logVars, mem, dsk, got, statGen, ing, user, rows, conns, excused, recounts>>

SendDevices ==
    /\ tick = "send"
    /\ wire = {}
    /\ wire' = got
    /\ got' = {}
    /\ tick' = "idle"
    /\ UNCHANGED <<logVars, mem, dsk, statGen, ing, user, rows, conns, excused, recounts>>

\* The send fails, or the connection breaks before the panel has the report:
\* nothing acknowledges devices.
SendFails ==
    /\ "sendError" \in DeviceFaults
    /\ tick = "send"
    /\ got' = {}
    /\ tick' = "idle"
    /\ excused' = excused \cup got
    /\ UNCHANGED <<logVars, mem, dsk, statGen, panelVars, recounts>>

ReportLost ==
    /\ "sendError" \in DeviceFaults
    /\ wire # {}
    /\ ~ing
    /\ wire' = {}
    /\ excused' = excused \cup wire
    /\ UNCHANGED <<logVars, agentVars, ing, user, rows, conns, recounts>>

\* Bug: the position is only kept in memory; a restarted agent reads from the start.
BugRestored == [NoPosition EXCEPT !.seeded = TRUE]

\* newAccessWatcher.
Restored == dsk

\* The agent stops anywhere and starts again.
AgentStop ==
    /\ "agentStop" \in DeviceFaults
    /\ mem' = Restored
    /\ tick' = "idle"
    /\ got' = {}
    /\ excused' = excused \cup got
    /\ UNCHANGED <<logVars, dsk, statGen, panelVars, recounts>>

-----------------------------------------------------------------------------
(* The panel. *)

\* ingestDevices: UsersForNode; whoever is not assigned is skipped.
Allowed ==
    /\ wire # {}
    /\ ~ing
    /\ \/ user /\ ing' = TRUE /\ UNCHANGED <<wire, excused>>
       \/ ~user /\ ing' = FALSE /\ wire' = {} /\ excused' = excused \cup wire
    /\ UNCHANGED <<logVars, agentVars, user, rows, conns, recounts>>

\* UpsertDevice for the devices of the report.
UpsertDevice ==
    /\ ing
    /\ ing' = FALSE
    /\ wire' = {}
    /\ rows' = "recent"
    /\ conns' = [k \in Lines |-> IF k \in wire /\ conns[k] < ConnsCap THEN conns[k] + 1
                                                                     ELSE conns[k]]
    /\ UNCHANGED <<logVars, agentVars, user, excused, recounts>>

\* DeleteUser drops the rows with the user.
DeleteUser ==
    /\ "deleteUser" \in DeviceFaults
    /\ user
    /\ user' = FALSE
    /\ rows' = "none"
    /\ UNCHANGED <<logVars, agentVars, wire, ing, conns, excused, recounts>>

\* Thirty days go by without the device.
Age ==
    /\ "age" \in DeviceFaults
    /\ rows = "recent"
    /\ rows' = "old"
    /\ UNCHANGED <<logVars, agentVars, wire, ing, user, conns, excused, recounts>>

\* Bug: only the rows of existing users are swept.
BugPurge ==
    /\ rows = "old"
    /\ user
    /\ rows' = "none"
    /\ UNCHANGED <<logVars, agentVars, wire, ing, user, conns, excused, recounts>>

\* deviceCleanupLoop's daily PurgeDevices.
Purge ==
    /\ rows = "old"
    /\ rows' = "none"
    /\ UNCHANGED <<logVars, agentVars, wire, ing, user, conns, excused, recounts>>

-----------------------------------------------------------------------------
Tick == Seed \/ Stat \/ ReadLog \/ SendDevices

DeviceNext ==
    \/ \E k \in Lines : Log(k) \/ \E n \in {1, 2} : LogPart(k, n)
    \/ LogRest \/ LogCut
    \/ Rotate(ino) \/ Rotate(ino + 1)
    \/ Tick \/ SendFails \/ ReportLost \/ AgentStop
    \/ Allowed \/ UpsertDevice \/ DeleteUser \/ Age \/ Purge

DeviceSpec == DeviceInit /\ [][DeviceNext]_deviceVars

(***************************************************************************)
(* Fairness: the agent ticks, the panel ingests, time passes and the daily *)
(* sweep runs.                                                             *)
(***************************************************************************)
DeviceFairSpec ==
    DeviceSpec /\ WF_deviceVars(Tick) /\ WF_deviceVars(Allowed) /\ WF_deviceVars(UpsertDevice)
               /\ WF_deviceVars(Age) /\ WF_deviceVars(Purge)

-----------------------------------------------------------------------------
\* Type invariant.
DeviceTypeOK ==
    /\ unlogged \subseteq Lines
    /\ bytes \in Seq({NL} \cup (Lines \X {1, 2}))
    /\ ino \in Nat
    /\ gen \in Nat
    /\ Len(rest) <= 2
    /\ mem \in Position
    /\ dsk \in Position
    /\ tick \in {"idle", "open", "send"}
    /\ got \subseteq Lines /\ (got # {} <=> tick = "send")
    /\ wire \subseteq Lines
    /\ ing \in BOOLEAN
    /\ user \in BOOLEAN
    /\ rows \in {"none", "recent", "old"}
    /\ conns \in [Lines -> 0..ConnsCap]
    /\ statGen \in Nat
    /\ excused \subseteq Lines
    /\ recounts \subseteq RecountKinds

\* A connection is added to its device at most once, over rotations, truncations,
\* lost reports and restarts of the agent ("a restarted agent re-read the whole
\* log" was the bug, docs/PROTOCOL.md:150), unless the log ended in an unfinished
\* line, was replaced inside collect, or the position could not be saved.
CountedOnce == recounts = {} => \A k \in Lines : conns[k] <= 1

\* Every connection logged is counted, on its way, or still ahead of the reader,
\* unless its line was in the log before the agent's first look, cut, rotated away
\* unread, or read and the report lost (reports of devices are not repeated).
NoneSkipped ==
    \A k \in Lines \ unlogged :
        conns[k] > 0 \/ k \in got \cup wire \cup excused \cup Unread

\* "Deleting a user or a node drops its device rows with it" (docs/PROTOCOL.md:161):
\* if not at once, the sweep drops them in the end.
RowsExpire == <>[](~user => rows = "none")
============================================================================
