---------------------------- MODULE ConfigSync ----------------------------
(***************************************************************************)
(* How one node comes to run the configuration the panel wants             *)
(* (internal/panel/traffic.go syncNode, forceSyncNode, enforcementLoop;    *)
(* internal/panel/hub.go PushConfig, trySend, writeLoop).  Any number of   *)
(* goroutines sync the same node at once: admin handlers, the bot, traffic *)
(* ingestion, the enforcement loop, the handler of a new connection.       *)
(*                                                                         *)
(* A configuration is abstracted to the two things it is built from: the   *)
(* effective user set (assigned, active, with their UUIDs), which the      *)
(* cached signature identifies, and the node's settings, which it does not.*)
(* Registration races and the fate of the connection's messages are those  *)
(* of Traffic; what the agent does with a config is in Apply.              *)
(***************************************************************************)
EXTENDS Integers, Sequences

CONSTANTS
    Clients,    \* "username:uuid" lines a user set is made of
    Workers,    \* goroutines that may sync the node
    QueueCap,   \* capacity of nodeConn.send (8 in the code)
    MaxEdits,   \* bound: changes to the store
    MaxConns,   \* bound: connections
    Faults      \* which FaultKinds the run injects

FaultKinds == {"writeError", "dbError", "panelRestart"}

UserSets == SUBSET Clients      \* a signature identifies one of these
NoSig    == <<>>                \* activeCache has no entry

ASSUME SyncBounds == QueueCap \in Nat \ {0} /\ MaxEdits \in Nat /\ MaxConns \in Nat
ASSUME SyncFaults == Faults \subseteq FaultKinds

VARIABLES
    users,      \* the user set the store and the clock call for now
    node,       \* node settings, numbered by the edits that made them
    edits,      \* changes so far
    cache,      \* App.activeCache[node]: <<sig>>, or NoSig
    hub,        \* Hub.conns[node], 0 when none
    q,          \* that connection's send channel and what writeLoop has sent
    writer,     \* its writeLoop is running
    sess,       \* the connection the agent is on, 0 between sessions
    nconns,     \* connections so far
    running,    \* the configuration the agent received last
    wk,         \* wk[w]: where goroutine w is
    causes      \* history: what may have misled the cache on this connection

storeVars == <<users, node, edits>>
connVars  == <<hub, q, writer, sess, nconns, running>>
vars == <<users, node, edits, cache, hub, q, writer, sess, nconns, running, wk, causes>>

CauseKinds == {"overlap", "mismatch", "writeError", "dbError"}

Config == [users: UserSets, node: 0..MaxEdits]

Steps == {"idle", "sig", "check", "conn", "node", "users", "send", "record", "forget"}

Worker == [pc: Steps, force: BOOLEAN, sig: UserSets, conn: 0..MaxConns,
           node: 0..MaxEdits, users: UserSets]

IdleWorker == [pc |-> "idle", force |-> FALSE, sig |-> {}, conn |-> 0, node |-> 0,
               users |-> {}]

Starting(force) == [IdleWorker EXCEPT !.pc = "sig", !.force = force]

Want == [users |-> users, node |-> node]

Init ==
    /\ users \in UserSets
    /\ node = 0
    /\ edits = 0
    /\ cache = NoSig
    /\ hub = 0
    /\ q = <<>>
    /\ writer = FALSE
    /\ sess = 0
    /\ nconns = 0
    /\ running \in [users: UserSets, node: {0}]
    /\ wk = [w \in Workers |-> IdleWorker]
    /\ causes = {}

-----------------------------------------------------------------------------
(* Who starts a sync. *)

\* A handler (or the bot, the reset loop, ingestTraffic) changes who the node
\* should serve, then calls syncNode.
EditUsers(w, S) ==
    /\ wk[w].pc = "idle"
    /\ edits < MaxEdits
    /\ S # users
    /\ users' = S
    /\ edits' = edits + 1
    /\ wk' = [wk EXCEPT ![w] = Starting(FALSE)]
    /\ UNCHANGED <<node, cache, connVars, causes>>

\* A user's time is up: it is no longer active and no handler runs.
Expire(x) ==
    /\ edits < MaxEdits
    /\ x \in users
    /\ users' = users \ {x}
    /\ edits' = edits + 1
    /\ UNCHANGED <<node, cache, connVars, wk, causes>>

\* handleUpdateNode: store the settings, then forceSyncNode.
EditNode(w) ==
    /\ wk[w].pc = "idle"
    /\ edits < MaxEdits
    /\ edits' = edits + 1
    /\ node' = edits'
    /\ wk' = [wk EXCEPT ![w] = Starting(TRUE)]
    /\ UNCHANGED <<users, cache, connVars, causes>>

\* enforcementLoop's tick finds the node online.
Enforce(w) ==
    /\ wk[w].pc = "idle"
    /\ hub # 0
    /\ wk' = [wk EXCEPT ![w] = Starting(FALSE)]
    /\ UNCHANGED <<storeVars, cache, connVars, causes>>

-----------------------------------------------------------------------------
(* Connections. *)

InPush(w) == wk[w].pc \in {"node", "users", "send", "record"}

\* Bug: a new connection is synced like any other change.
BugConnectNotForced(w) ==
    /\ wk[w].pc = "idle"
    /\ sess = 0
    /\ nconns < MaxConns
    /\ nconns' = nconns + 1
    /\ sess' = nconns'
    /\ hub' = nconns'
    /\ q' = <<>>
    /\ writer' = TRUE
    /\ wk' = [wk EXCEPT ![w] = Starting(FALSE)]
    /\ causes' = IF \E v \in Workers : InPush(v) THEN {"overlap"} ELSE {}
    /\ UNCHANGED <<storeVars, cache, running>>

\* The agent dials and is registered, an older connection is closed with its
\* queue; writeLoop starts and the handler calls forceSyncNode.
Connect(w) ==
    /\ wk[w].pc = "idle"
    /\ sess = 0
    /\ nconns < MaxConns
    /\ nconns' = nconns + 1
    /\ sess' = nconns'
    /\ hub' = nconns'
    /\ q' = <<>>
    /\ writer' = TRUE
    /\ wk' = [wk EXCEPT ![w] = Starting(TRUE)]
    /\ causes' = IF \E v \in Workers : InPush(v) THEN {"overlap"} ELSE {}
    /\ UNCHANGED <<storeVars, cache, running>>

\* The agent's end breaks; the last connection of a run stays up.
Break ==
    /\ sess # 0
    /\ nconns < MaxConns
    /\ sess' = 0
    /\ UNCHANGED <<storeVars, cache, hub, q, writer, nconns, running, wk, causes>>

\* readLoop fails and unregister closes the connection.
Unregister ==
    /\ hub # 0
    /\ sess # hub
    /\ hub' = 0
    /\ q' = <<>>
    /\ writer' = FALSE
    /\ UNCHANGED <<storeVars, cache, sess, nconns, running, wk, causes>>

\* writeLoop sends the head of the queue; the agent takes it, or is gone.
Deliver ==
    /\ writer
    /\ q # <<>>
    /\ q' = Tail(q)
    /\ running' = IF sess = hub THEN Head(q) ELSE running
    /\ UNCHANGED <<storeVars, cache, hub, writer, sess, nconns, wk, causes>>

\* WriteJSON or the ping fails: writeLoop returns and nothing else happens.
WriteFails ==
    /\ "writeError" \in Faults
    /\ writer
    /\ writer' = FALSE
    /\ causes' = causes \cup {"writeError"}
    /\ UNCHANGED <<storeVars, cache, hub, q, sess, nconns, running, wk>>

\* The panel restarts: the cache, the goroutines and the connection are gone.
PanelRestart ==
    /\ "panelRestart" \in Faults
    /\ nconns < MaxConns
    /\ cache' = NoSig
    /\ hub' = 0
    /\ q' = <<>>
    /\ writer' = FALSE
    /\ sess' = 0
    /\ wk' = [w \in Workers |-> IdleWorker]
    /\ causes' = {}
    /\ UNCHANGED <<storeVars, nconns, running>>

-----------------------------------------------------------------------------
(* syncNode and forceSyncNode, one step per access to shared state. *)

\* UsersForNode and activeSignature.
ReadSig(w) ==
    /\ wk[w].pc = "sig"
    /\ wk' = [wk EXCEPT ![w].sig = users,
                        ![w].pc = IF wk[w].force THEN "conn" ELSE "check"]
    /\ UNCHANGED <<storeVars, cache, connVars, causes>>

\* The store fails here: the sync ends and the cache stays as it is.
SigFails(w) ==
    /\ "dbError" \in Faults
    /\ wk[w].pc = "sig"
    /\ wk' = [wk EXCEPT ![w] = IdleWorker]
    /\ causes' = IF wk[w].force THEN causes \cup {"dbError"} ELSE causes
    /\ UNCHANGED <<storeVars, cache, connVars>>

\* Bug: the signature is recorded before the push.
BugRecordFirst(w) ==
    /\ wk[w].pc = "check"
    /\ wk' = [wk EXCEPT ![w] = IF cache = <<wk[w].sig>> THEN IdleWorker
                               ELSE [@ EXCEPT !.pc = "conn"]]
    /\ cache' = <<wk[w].sig>>
    /\ UNCHANGED <<storeVars, connVars, causes>>

\* syncNode: an unchanged signature needs no push.
CheckCache(w) ==
    /\ wk[w].pc = "check"
    /\ wk' = [wk EXCEPT ![w] = IF cache = <<wk[w].sig>> THEN IdleWorker
                               ELSE [@ EXCEPT !.pc = "conn"]]
    /\ UNCHANGED <<storeVars, cache, connVars, causes>>

\* What a failed PushConfig leads to: syncNode gives up, forceSyncNode forgets.
Failed(r) == IF r.force THEN [r EXCEPT !.pc = "forget"] ELSE IdleWorker

\* PushConfig takes the node's connection.
TakeConn(w) ==
    /\ wk[w].pc = "conn"
    /\ wk' = [wk EXCEPT ![w] = IF hub = 0 THEN Failed(@)
                               ELSE [@ EXCEPT !.conn = hub, !.pc = "node"]]
    /\ causes' = IF hub # 0 /\ \E v \in Workers \ {w} : InPush(v)
                 THEN causes \cup {"overlap"} ELSE causes
    /\ UNCHANGED <<storeVars, cache, connVars>>

\* PushConfig: GetNode, then UsersForNode and buildXrayConfig.
ReadNode(w) ==
    /\ wk[w].pc = "node"
    /\ wk' = [wk EXCEPT ![w].node = node, ![w].pc = "users"]
    /\ UNCHANGED <<storeVars, cache, connVars, causes>>

ReadUsers(w) ==
    /\ wk[w].pc = "users"
    /\ wk' = [wk EXCEPT ![w].users = users, ![w].pc = "send"]
    /\ UNCHANGED <<storeVars, cache, connVars, causes>>

\* One of the two reads fails.
BuildFails(w) ==
    /\ "dbError" \in Faults
    /\ wk[w].pc \in {"node", "users"}
    /\ wk' = [wk EXCEPT ![w] = Failed(@)]
    /\ UNCHANGED <<storeVars, cache, connVars, causes>>

\* Bug: the channel's capacity is not respected.
BugCanQueue(w) == wk[w].conn = hub

\* trySend queues unless the connection was closed or its queue is full.
CanQueue(w) == wk[w].conn = hub /\ Len(q) < QueueCap

Queue(w) ==
    /\ wk[w].pc = "send"
    /\ CanQueue(w)
    /\ q' = Append(q, [users |-> wk[w].users, node |-> wk[w].node])
    /\ wk' = [wk EXCEPT ![w].pc = "record"]
    /\ UNCHANGED <<storeVars, cache, hub, writer, sess, nconns, running, causes>>

\* trySend drops the config: closed, full, or full of traffic acks.
Drop(w) ==
    /\ wk[w].pc = "send"
    /\ wk' = [wk EXCEPT ![w] = Failed(@)]
    /\ UNCHANGED <<storeVars, cache, connVars, causes>>

\* The push was queued: remember the signature read at the start.
Record(w) ==
    /\ wk[w].pc = "record"
    /\ cache' = <<wk[w].sig>>
    /\ causes' = IF wk[w].sig = wk[w].users THEN causes ELSE causes \cup {"mismatch"}
    /\ wk' = [wk EXCEPT ![w] = IdleWorker]
    /\ UNCHANGED <<storeVars, connVars>>

\* forceSyncNode after a failed push: the next syncNode must push.
Forget(w) ==
    /\ wk[w].pc = "forget"
    /\ cache' = NoSig
    /\ wk' = [wk EXCEPT ![w] = IdleWorker]
    /\ UNCHANGED <<storeVars, connVars, causes>>

-----------------------------------------------------------------------------
Sync(w) ==
    \/ ReadSig(w) \/ SigFails(w) \/ CheckCache(w) \/ TakeConn(w)
    \/ ReadNode(w) \/ ReadUsers(w) \/ BuildFails(w)
    \/ Queue(w) \/ Drop(w) \/ Record(w) \/ Forget(w)

Next ==
    \/ \E w \in Workers : \/ \E S \in UserSets : EditUsers(w, S)
                          \/ EditNode(w) \/ Enforce(w) \/ Connect(w) \/ Sync(w)
    \/ \E x \in Clients : Expire(x)
    \/ Break \/ Unregister \/ Deliver \/ WriteFails \/ PanelRestart

Spec == Init /\ [][Next]_vars

(***************************************************************************)
(* Fairness: goroutines run, the enforcement ticker fires, the agent       *)
(* redials, a broken connection is noticed, a live writeLoop drains and so *)
(* a queue with room does not drop every config for ever; nor does the     *)
(* store fail every read for ever.                                         *)
(***************************************************************************)
Fairness ==
    /\ \A w \in Workers : WF_vars(Sync(w))
    /\ SF_vars(\E w \in Workers : ReadSig(w))
    /\ SF_vars(\E w \in Workers : ReadNode(w))
    /\ SF_vars(\E w \in Workers : ReadUsers(w))
    /\ SF_vars(\E w \in Workers : Queue(w))
    /\ SF_vars(\E w \in Workers : Enforce(w))
    /\ SF_vars(\E w \in Workers : Connect(w))
    /\ WF_vars(Unregister)
    /\ WF_vars(Deliver)

FairSpec == Spec /\ Fairness

-----------------------------------------------------------------------------
\* Type invariant.
TypeOK ==
    /\ users \in UserSets
    /\ node \in 0..MaxEdits
    /\ edits \in 0..MaxEdits
    /\ cache \in {NoSig} \cup {<<S>> : S \in UserSets}
    /\ hub \in 0..MaxConns
    /\ q \in Seq(Config) /\ Len(q) <= QueueCap
    /\ writer \in BOOLEAN
    /\ sess \in 0..MaxConns
    /\ nconns \in 0..MaxConns
    /\ running \in Config
    /\ wk \in [Workers -> Worker]
    /\ causes \subseteq CauseKinds

\* The user set the node will run once everything queued has arrived.
Reaching == IF q = <<>> THEN running.users ELSE q[Len(q)].users

\* The signature is only recorded once the push reached the node's queue
\* (traffic.go:143): while no push is under way on a live connection, a cached
\* signature is that of the configuration the node runs or is about to get.
CacheHonest ==
    (causes = {} /\ hub # 0 /\ sess = hub /\ \A w \in Workers : wk[w].pc = "idle")
        => cache \in {NoSig, <<Reaching>>}

\* "The node is eventually consistent with Panel state" (docs/PROTOCOL.md:53),
\* node settings included, unless pushes overlapped, the store changed between
\* the two reads of one sync, writeLoop died or a forced sync's first read
\* failed since the node last connected.
ConvergesUnlessMisled == <>[](causes = {}) => <>[](running = Want)
=============================================================================
